---- MODULE Spec2Model ----
(***************************************************************************)
(* Cantonese flashcards: the two quiz engines (CardLogic, CardLogicQA),    *)
(* their record stores (DataManager, DataManagerQA) and the session        *)
(* controllers (FlashcardApp, FlashcardQAApp).                             *)
(*                                                                         *)
(* Text is modelled as a sequence of one-character strings, so that        *)
(* strip(), lower(), upper(), split('/'), `in` and str()/int() are         *)
(* computed character by character as Python computes them.                *)
(***************************************************************************)
EXTENDS Integers, Sequences, FiniteSets, TLC

\* ------------------------------------------------------------------ bounds
\* Counters are capped in the guards of the selecting / validating steps.
MaxCount == 3
\* Largest number of rows of a data file (items of a collection).
MaxRows == 3
\* longest text for which audio file names are computed
MaxText == 3

\* ------------------------------------------------------- program constants
MAX_CARDS == 10
\* `while attempts < 10` of CardLogicQA.get_random_card
MaxAttempts == 10

\* ------------------------------------------------------------ Python text
Uppers == <<"A", "B", "C", "D", "E", "F", "G", "H", "I", "J", "K", "L", "M",
           "N", "O", "P", "Q", "R", "S", "T", "U", "V", "W", "X", "Y", "Z">>
Lowers == <<"a", "b", "c", "d", "e", "f", "g", "h", "i", "j", "k", "l", "m",
           "n", "o", "p", "q", "r", "s", "t", "u", "v", "w", "x", "y", "z">>
Digits == <<"0", "1", "2", "3", "4", "5", "6", "7", "8", "9">>

\* None, where Python has it (a missing DictReader cell, a dict.get miss).
None == <<"<None>">>

IndexOf(seq, x) == CHOOSE i \in 1..Len(seq) : seq[i] = x

InSeq(seq, x) == \E i \in 1..Len(seq) : seq[i] = x

\* str.lower() / str.upper(), one character
LowerChar(ch) == IF InSeq(Uppers, ch) THEN Lowers[IndexOf(Uppers, ch)] ELSE ch

UpperChar(ch) == IF InSeq(Lowers, ch) THEN Uppers[IndexOf(Lowers, ch)] ELSE ch

Lower(s) == [i \in 1..Len(s) |-> LowerChar(s[i])]

Upper(s) == [i \in 1..Len(s) |-> UpperChar(s[i])]

IsSpace(ch) == ch = " "

RECURSIVE LStrip(_)
LStrip(s) == IF s # <<>> /\ IsSpace(Head(s)) THEN LStrip(Tail(s)) ELSE s

RECURSIVE RStrip(_)
RStrip(s) ==
    IF s # <<>> /\ IsSpace(s[Len(s)]) THEN RStrip(SubSeq(s, 1, Len(s) - 1)) ELSE s

\* str.strip()
Strip(s) == RStrip(LStrip(s))

\* Python `a in b` for two str: a occurs in b as a contiguous substring.
StrIn(a, b) == \E i \in 0..(Len(b) - Len(a)) : SubSeq(b, i + 1, i + Len(a)) = a

\* str.split(sep) for a one-character separator: never empty, '' gives [''].
RECURSIVE Split(_, _)
Split(s, sep) ==
    IF InSeq(s, sep)
    THEN LET i == CHOOSE k \in 1..Len(s) :
                     s[k] = sep /\ \A j \in 1..(k - 1) : s[j] # sep
         IN  <<SubSeq(s, 1, i - 1)>> \o Split(SubSeq(s, i + 1, Len(s)), sep)
    ELSE <<s>>

\* sep.join(parts)
RECURSIVE Join(_, _)
Join(sep, parts) ==
    IF parts = <<>> THEN <<>>
    ELSE IF Len(parts) = 1 THEN parts[1]
    ELSE parts[1] \o sep \o Join(sep, Tail(parts))

\* str(n)
RECURSIVE IntToStr(_)
IntToStr(n) ==
    IF n < 0 THEN <<"-">> \o IntToStr(0 - n)
    ELSE IF n < 10 THEN <<Digits[n + 1]>>
    ELSE IntToStr(n \div 10) \o <<Digits[(n % 10) + 1]>>

\* str.isdigit(): non-empty and every character a digit
IsDigitStr(s) == s # <<>> /\ \A i \in 1..Len(s) : InSeq(Digits, s[i])

\* int(s) for a string of digits
RECURSIVE DigitsToInt(_)
DigitsToInt(s) ==
    IF s = <<>> THEN 0
    ELSE 10 * DigitsToInt(SubSeq(s, 1, Len(s) - 1)) + (IndexOf(Digits, s[Len(s)]) - 1)

\* Python truthiness of a cell: neither None nor ''.
Truthy(cell) == cell # None /\ cell # <<>>

\* --------------------------------------------------------------- CSV rows
\* A csv.DictReader row: a dict from column name to cell (a str, or None for
\* a cell the line does not have).
HasKey(row, k) == k \in DOMAIN row

\* row.get(k): None when the key is missing
Get(row, k) == IF HasKey(row, k) THEN row[k] ELSE None

\* row[k] = v
SetCell(row, k, v) == [x \in (DOMAIN row) \cup {k} |-> IF x = k THEN v ELSE row[x]]

\* ---------------------------------------------- DataManager (simple schema)
REQUIRED_HEADERS == <<"Word", "Jyutping", "English", "Questioned", "Correct", "Type">>

\* The file as csv.DictReader sees it: absent, or a header and its rows.
MissingFile == [exists |-> FALSE, header |-> <<>>, rows |-> <<>>]

create_default_csv == [exists |-> TRUE, header |-> REQUIRED_HEADERS, rows |-> <<>>]

\* int(cell.strip()) if cell and cell.strip().isdigit() else 0
parse_counter(cell) ==
    IF Truthy(cell) /\ IsDigitStr(Strip(cell)) THEN DigitsToInt(Strip(cell)) ELSE 0

\* row[k] raises KeyError when the header has no column k
row_raises(row) ==
    \/ ~HasKey(row, "Word")
    \/ /\ Truthy(row["Word"]) /\ Strip(row["Word"]) # <<>>
       /\ \E k \in {"Questioned", "Correct", "Jyutping", "English"} : ~HasKey(row, k)

\* The dict appended for one row whose Word is not empty.
load_word(row) ==
    [char |-> Strip(row["Word"]),
     jyut |-> IF Truthy(row["Jyutping"]) THEN Strip(row["Jyutping"]) ELSE <<>>,
     eng  |-> IF Truthy(row["English"]) THEN Lower(Strip(row["English"])) ELSE <<>>,
     q    |-> parse_counter(row["Questioned"]),
     c    |-> parse_counter(row["Correct"]),
     type |-> IF Truthy(Get(row, "Type")) THEN Strip(Get(row, "Type")) ELSE <<>>,
     row  |-> row]

\* for row in reader: ...   (an exception leaves the loop and returns False)
RECURSIVE load_rows(_, _, _)
load_rows(rows, i, acc) ==
    IF i > Len(rows) THEN [ok |-> TRUE, words |-> acc]
    ELSE IF row_raises(rows[i]) THEN [ok |-> FALSE, words |-> acc]
    ELSE IF ~Truthy(rows[i]["Word"]) \/ Strip(rows[i]["Word"]) = <<>>
         THEN load_rows(rows, i + 1, acc)
         ELSE load_rows(rows, i + 1, Append(acc, load_word(rows[i])))

\* Variant of load_csv that reports a missing file as a failure and creates
\* nothing.
load_csv_missing_fails(file) ==
    IF ~file.exists
    THEN [ok |-> FALSE, words |-> <<>>, file |-> file, warned |-> FALSE,
          created |-> FALSE]
    ELSE LET r == load_rows(file.rows, 1, <<>>)
         IN  [ok |-> r.ok, words |-> r.words, file |-> file,
              warned |-> file.header # REQUIRED_HEADERS, created |-> FALSE]

\* DataManager.load_csv: [ok, words, file, warned, created]; warned when the
\* header warning is printed, created when "Created <file>." is.
load_csv(file) ==
    IF ~file.exists
    THEN [ok |-> TRUE, words |-> <<>>, file |-> create_default_csv, warned |-> FALSE,
          created |-> TRUE]
    ELSE LET r == load_rows(file.rows, 1, <<>>)
         IN  [ok |-> r.ok, words |-> r.words, file |-> file,
              warned |-> file.header # REQUIRED_HEADERS, created |-> FALSE]

\* The row DictWriter writes for one word.
save_row(w) ==
    [k \in {REQUIRED_HEADERS[i] : i \in 1..Len(REQUIRED_HEADERS)} |->
        CASE k = "Word"       -> w.char
          [] k = "Jyutping"   -> w.jyut
          [] k = "English"    -> Upper(w.eng)
          [] k = "Questioned" -> IntToStr(w.q)
          [] k = "Correct"    -> IntToStr(w.c)
          [] k = "Type"       -> w.type]

\* DataManager.save_csv: the file after a save that succeeds
save_csv(ws) ==
    [exists |-> TRUE, header |-> REQUIRED_HEADERS,
     rows |-> [i \in 1..Len(ws) |-> save_row(ws[i])]]

\* DataManager.get_types: the non-empty types (the list is sorted and has no
\* duplicates; only membership in it is ever used)
get_types(ws) == {Strip(ws[i].type) : i \in 1..Len(ws)} \ {<<>>}

\* Variant of filter_words_by_types that gives every word when no type is
\* selected.
filter_words_by_types_all_when_empty(ws, selected_types) ==
    IF selected_types = {} THEN [i \in 1..Len(ws) |-> i]
    ELSE SelectSeq([i \in 1..Len(ws) |-> i],
                   LAMBDA i : Strip(ws[i].type) \in selected_types)

\* DataManager.filter_words_by_types: the references kept, as positions in
\* data_manager.words (the filtered list shares the word objects)
RECURSIVE filter_from(_, _, _)
filter_from(ws, selected_types, i) ==
    IF i > Len(ws) THEN <<>>
    ELSE (IF Strip(ws[i].type) \in selected_types THEN <<i>> ELSE <<>>)
         \o filter_from(ws, selected_types, i + 1)

filter_words_by_types(ws, selected_types) ==
    IF selected_types = {} THEN <<>> ELSE filter_from(ws, selected_types, 1)

\* ------------------------------------------------- CardLogic (simple schema)
\* The engine: words is its list (positions in data_manager.words), current
\* the word it holds (0 for None), current_idx the Python index it drew.
CardLogic(word_refs) == [words |-> word_refs, current |-> 0, current_idx |-> -1]

Modes == {"char", "jyut", "eng"}

NoCard == [kind |-> "none"]

\* Variant of get_random_card that leaves the questioned counter alone.
get_random_card_no_count(logic, ws) ==
    IF logic.words = <<>>
    THEN {[ret |-> NoCard, logic |-> logic, words |-> ws]}
    ELSE {LET cur == logic.words[k + 1]
          IN  [ret   |-> [kind |-> "card", card |-> cur, mode |-> m],
               logic |-> [logic EXCEPT !.current = cur, !.current_idx = k],
               words |-> ws]
          : k \in 0..(Len(logic.words) - 1), m \in Modes}

\* CardLogic.get_random_card: every outcome of the two random draws, each
\* [ret, logic, words].
get_random_card(logic, ws) ==
    IF logic.words = <<>>
    THEN {[ret |-> NoCard, logic |-> logic, words |-> ws]}
    ELSE {LET cur == logic.words[k + 1]
              q1  == ws[cur].q + 1
          IN  [ret   |-> [kind |-> "card", card |-> cur, mode |-> m],
               logic |-> [logic EXCEPT !.current = cur, !.current_idx = k],
               words |-> [ws EXCEPT ![cur].q = q1,
                                    ![cur].row = SetCell(@, "Questioned", IntToStr(q1))]]
          : k \in 0..(Len(logic.words) - 1), m \in Modes}

\* Python `answer in expected`: substring when expected is a str, membership
\* when it is a list.
PyIn(answer, expected, is_str) ==
    IF is_str THEN StrIn(answer, expected) ELSE InSeq(expected, answer)

\* The (tested, answer, expected) triples of the loop, (None, None, None) for
\* the prompted field.
Skipped == [tested |-> "None", skip |-> TRUE, answer |-> <<>>, expected |-> <<>>,
            is_str |-> TRUE]

\* Variant of check_tests that compares the translation as typed, without folding its case.
check_tests_eng_as_typed(cur, mode, user_inputs) ==
    LET c == Strip(user_inputs.char)
        j == Lower(Strip(user_inputs.jyut))
        e == Strip(user_inputs.eng)
        exp_c == cur.char
        exp_j == Lower(cur.jyut)
        parts == Split(cur.eng, "/")
        exp_e_list == [i \in 1..Len(parts) |-> Strip(parts[i])]
    IN  << IF mode # "char"
           THEN [tested |-> "Chinese", skip |-> FALSE, answer |-> c,
                 expected |-> exp_c, is_str |-> TRUE]
           ELSE Skipped,
           IF mode # "jyut"
           THEN [tested |-> "Jyutping", skip |-> FALSE, answer |-> j,
                 expected |-> exp_j, is_str |-> TRUE]
           ELSE Skipped,
           IF mode # "eng"
           THEN [tested |-> "English", skip |-> FALSE, answer |-> e,
                 expected |-> exp_e_list, is_str |-> FALSE]
           ELSE Skipped >>

check_tests(cur, mode, user_inputs) ==
    LET c == Strip(user_inputs.char)
        j == Lower(Strip(user_inputs.jyut))
        e == Lower(Strip(user_inputs.eng))
        exp_c == cur.char
        exp_j == Lower(cur.jyut)
        parts == Split(cur.eng, "/")
        exp_e_list == [i \in 1..Len(parts) |-> Strip(parts[i])]
    IN  << IF mode # "char"
           THEN [tested |-> "Chinese", skip |-> FALSE, answer |-> c,
                 expected |-> exp_c, is_str |-> TRUE]
           ELSE Skipped,
           IF mode # "jyut"
           THEN [tested |-> "Jyutping", skip |-> FALSE, answer |-> j,
                 expected |-> exp_j, is_str |-> TRUE]
           ELSE Skipped,
           IF mode # "eng"
           THEN [tested |-> "English", skip |-> FALSE, answer |-> e,
                 expected |-> exp_e_list, is_str |-> FALSE]
           ELSE Skipped >>

\* One line of the message: "<tested> : expected <text>" or "<tested> : Correct!"
ExpectedLine(t) ==
    [tested |-> t.tested, verdict |-> "expected",
     text |-> IF t.is_str THEN t.expected ELSE Join(<<" ", "/", " ">>, t.expected)]

CorrectLine(t) == [tested |-> t.tested, verdict |-> "Correct!", text |-> <<>>]

\* Variant of the loop that goes on after a mismatch.
RECURSIVE check_loop_no_break(_, _, _)
check_loop_no_break(tests, i, msg) ==
    IF i > Len(tests)
    THEN [correct |-> \A n \in 1..Len(msg) : msg[n].verdict = "Correct!", msg |-> msg]
    ELSE IF tests[i].skip THEN check_loop_no_break(tests, i + 1, msg)
    ELSE IF ~PyIn(tests[i].answer, tests[i].expected, tests[i].is_str)
         THEN check_loop_no_break(tests, i + 1, Append(msg, ExpectedLine(tests[i])))
         ELSE check_loop_no_break(tests, i + 1, Append(msg, CorrectLine(tests[i])))

\* The for loop of check_answer, with its break at the first mismatch.
RECURSIVE check_loop(_, _, _)
check_loop(tests, i, msg) ==
    IF i > Len(tests) THEN [correct |-> TRUE, msg |-> msg]
    ELSE IF tests[i].skip THEN check_loop(tests, i + 1, msg)
    ELSE IF ~PyIn(tests[i].answer, tests[i].expected, tests[i].is_str)
         THEN [correct |-> FALSE, msg |-> Append(msg, ExpectedLine(tests[i]))]
         ELSE check_loop(tests, i + 1, Append(msg, CorrectLine(tests[i])))

NoCardLoaded == <<[tested |-> "None", verdict |-> "No card loaded", text |-> <<>>]>>

\* Variant of check_answer that counts every validation as correct.
check_answer_always_counts(logic, ws, mode, user_inputs) ==
    IF logic.current = 0
    THEN [correct |-> FALSE, msg |-> NoCardLoaded, words |-> ws]
    ELSE LET cur == logic.current
             r   == check_loop(check_tests(ws[cur], mode, user_inputs), 1, <<>>)
             c1  == ws[cur].c + 1
         IN  [correct |-> r.correct, msg |-> r.msg,
              words |-> [ws EXCEPT ![cur].c = c1,
                                   ![cur].row = SetCell(@, "Correct", IntToStr(c1))]]

\* Variant of check_answer that counts a correct answer on the first item of
\* the list instead of the current one.
check_answer_counts_first(logic, ws, mode, user_inputs) ==
    IF logic.current = 0
    THEN [correct |-> FALSE, msg |-> NoCardLoaded, words |-> ws]
    ELSE LET cur == logic.current
             r   == check_loop(check_tests(ws[cur], mode, user_inputs), 1, <<>>)
         IN  [correct |-> r.correct, msg |-> r.msg,
              words |-> IF r.correct THEN [ws EXCEPT ![1].c = @ + 1] ELSE ws]

\* CardLogic.check_answer: [correct, msg, words]
check_answer(logic, ws, mode, user_inputs) ==
    IF logic.current = 0
    THEN [correct |-> FALSE, msg |-> NoCardLoaded, words |-> ws]
    ELSE LET cur == logic.current
             r   == check_loop(check_tests(ws[cur], mode, user_inputs), 1, <<>>)
             c1  == ws[cur].c + 1
         IN  [correct |-> r.correct, msg |-> r.msg,
              words |-> IF r.correct
                        THEN [ws EXCEPT ![cur].c = c1,
                                        ![cur].row = SetCell(@, "Correct", IntToStr(c1))]
                        ELSE ws]

\* ------------------------------------------------ DataManagerQA (QA schema)
CANONICAL_KEYS == <<"ChineseQ", "JyutpingQ", "EnglishQ", "ChineseA", "JyutpingA", "EnglishA">>

\* The text of a canonical key, for the substring search in the header.
KeyText(k) ==
    CASE k = "ChineseQ"  -> <<"C", "h", "i", "n", "e", "s", "e", "Q">>
      [] k = "JyutpingQ" -> <<"J", "y", "u", "t", "p", "i", "n", "g", "Q">>
      [] k = "EnglishQ"  -> <<"E", "n", "g", "l", "i", "s", "h", "Q">>
      [] k = "ChineseA"  -> <<"C", "h", "i", "n", "e", "s", "e", "A">>
      [] k = "JyutpingA" -> <<"J", "y", "u", "t", "p", "i", "n", "g", "A">>
      [] k = "EnglishA"  -> <<"E", "n", "g", "l", "i", "s", "h", "A">>

\* The column names 'Questioned' and 'Correct' of a QA file (QA headers are
\* text, since they are searched by substring).
QuestionedCol == <<"Q", "u", "e", "s", "t", "i", "o", "n", "e", "d">>
CorrectCol == <<"C", "o", "r", "r", "e", "c", "t">>

\* DataManagerQA._find_field: the first header that contains the keyword,
\* case-insensitively; None when there is none.
find_field(fieldnames, keyword) ==
    LET hit(i) == fieldnames[i] # <<>> /\ StrIn(Lower(keyword), Lower(fieldnames[i]))
    IN  IF \E i \in 1..Len(fieldnames) : hit(i)
        THEN fieldnames[CHOOSE i \in 1..Len(fieldnames) :
                            hit(i) /\ \A j \in 1..(i - 1) : ~hit(j)]
        ELSE None

\* mapping[k] = self._find_field(fieldnames, k)
qa_mapping(fieldnames) == [k \in {CANONICAL_KEYS[i] : i \in 1..6} |->
                              find_field(fieldnames, KeyText(k))]

\* int(x) of a str: surrounding whitespace, one optional sign, then digits;
\* anything else raises ValueError.
IntParses(s) ==
    LET t == Strip(s)
        d == IF t # <<>> /\ t[1] \in {"-", "+"} THEN Tail(t) ELSE t
    IN  IsDigitStr(d)

IntValue(s) ==
    LET t == Strip(s)
    IN  IF t[1] = "-" THEN 0 - DigitsToInt(Tail(t))
        ELSE IF t[1] = "+" THEN DigitsToInt(Tail(t))
        ELSE DigitsToInt(t)

\* try: int(row.get(col) or 0) except Exception: 0
qa_counter(row, col) ==
    LET cell == Get(row, col)
    IN  IF ~Truthy(cell) THEN 0
        ELSE IF IntParses(cell) THEN IntValue(cell) ELSE 0

\* card[k] = (row.get(col) or '').strip() if col else ''
qa_field(row, col) ==
    IF col = None THEN <<>>
    ELSE IF Truthy(Get(row, col)) THEN Strip(Get(row, col)) ELSE <<>>

\* The card built for one row.
qa_card(row, mapping) ==
    [ChineseQ  |-> qa_field(row, mapping["ChineseQ"]),
     JyutpingQ |-> qa_field(row, mapping["JyutpingQ"]),
     EnglishQ  |-> qa_field(row, mapping["EnglishQ"]),
     ChineseA  |-> qa_field(row, mapping["ChineseA"]),
     JyutpingA |-> qa_field(row, mapping["JyutpingA"]),
     EnglishA  |-> qa_field(row, mapping["EnglishA"]),
     questioned |-> qa_counter(row, QuestionedCol),
     correct    |-> qa_counter(row, CorrectCol),
     row |-> row]

\* Variant of has_question that accepts a card with any of its six fields.
has_question_any_field(card) ==
    \E i \in 1..6 : card[CANONICAL_KEYS[i]] # <<>>

\* if not any(card[k] for k in ['ChineseQ', 'JyutpingQ', 'EnglishQ']): continue
has_question(card) ==
    card.ChineseQ # <<>> \/ card.JyutpingQ # <<>> \/ card.EnglishQ # <<>>

RECURSIVE qa_load_rows(_, _, _, _)
qa_load_rows(rows, mapping, i, acc) ==
    IF i > Len(rows) THEN acc
    ELSE LET card == qa_card(rows[i], mapping)
         IN  qa_load_rows(rows, mapping, i + 1,
                          IF has_question(card) THEN Append(acc, card) ELSE acc)

\* DataManagerQA.load_csv: [ok, cards]
qa_load_csv(file) ==
    IF ~file.exists THEN [ok |-> FALSE, cards |-> <<>>]
    ELSE [ok |-> TRUE,
          cards |-> qa_load_rows(file.rows, qa_mapping(file.header), 1, <<>>)]

\* row = c.get('_row', {}) or {}; row['Questioned'] = ...; row['Correct'] = ...
NoneRow == (None :> None)

qa_save_row(c) ==
    LET row == IF c.row = NoneRow THEN <<>> ELSE c.row
    IN  SetCell(SetCell(row, QuestionedCol, IntToStr(c.questioned)),
                CorrectCol, IntToStr(c.correct))

\* DictWriter(fieldnames=headers, extrasaction='ignore', restval=''): the cells
\* of the header's columns, '' for a missing or None cell.
write_row(headers, row) ==
    [h \in {headers[i] : i \in 1..Len(headers)} |->
        IF HasKey(row, h) /\ row[h] # None THEN row[h] ELSE <<>>]

\* DataManagerQA.save_csv: [file, cards]. The header is read back from the
\* file; a file that is gone raises, which is caught: nothing is written.
\* The rows written are the cards' own _row dicts, which the save updates.
qa_save_csv(file, cs) ==
    IF ~file.exists THEN [file |-> file, cards |-> cs]
    ELSE [file  |-> [exists |-> TRUE, header |-> file.header,
                     rows |-> [i \in 1..Len(cs) |->
                                  write_row(file.header, qa_save_row(cs[i]))]],
          cards |-> [i \in 1..Len(cs) |->
                        IF cs[i].row = NoneRow THEN cs[i]
                        ELSE [cs[i] EXCEPT !.row = qa_save_row(cs[i])]]]

\* ------------------------------------------------- CardLogicQA (QA schema)
keys == CANONICAL_KEYS

\* default = {k: (1.0 if k == 'ChineseQ' else 0.0) for k in self.keys}
default_weights == [k \in {keys[i] : i \in 1..Len(keys)} |->
                       IF k = "ChineseQ" THEN 1 ELSE 0]

\* The engine: cards is its list (positions in data_manager.cards), current
\* the card it holds (0 for None).
CardLogicQA(card_refs) ==
    [cards |-> card_refs, current |-> 0, current_idx |-> -1,
     prompt_weights |-> default_weights]

\* CardLogicQA.set_prompt_weights: weights is a partial dict key -> weight
set_prompt_weights(logic, weights) ==
    [logic EXCEPT !.prompt_weights =
        [k \in DOMAIN @ |-> IF k \in DOMAIN weights THEN weights[k] ELSE @[k]]]

\* Variant of the candidate list that ignores the weights.
weighted_candidates_unweighted(card, pw) == SelectSeq(keys, LAMBDA k : card[k] # <<>>)

\* The candidate prompt keys of a card: the non-empty fields of positive
\* weight, or every non-empty field when there is none.
weighted_candidates(card, pw) == SelectSeq(keys, LAMBDA k : card[k] # <<>> /\ pw[k] > 0)

content_candidates(card) == SelectSeq(keys, LAMBDA k : card[k] # <<>>)

candidates_of(card, pw) ==
    IF weighted_candidates(card, pw) = <<>>
    THEN content_candidates(card)
    ELSE weighted_candidates(card, pw)

\* A local variable that was never assigned.
Unbound == "<unbound>"

\* The while loop of get_random_card, all executions at once. `inside` is the
\* set of values current_idx can have at the top of iteration `attempts`; the
\* result is the set of exits [current_idx, prompt_key]: by the break with a
\* prompt drawn (random.choices gives any candidate, all have weight > 0), or
\* after the last attempt with prompt_key never assigned.
RECURSIVE attempt_loop(_, _, _, _)
attempt_loop(logic, cs, attempts, inside) ==
    IF inside = {} THEN {}
    ELSE IF attempts >= MaxAttempts
         THEN {[current_idx |-> k, prompt_key |-> Unbound] : k \in inside}
    ELSE LET draws == 0..(Len(logic.cards) - 1)
             cand(k) == candidates_of(cs[logic.cards[k + 1]], logic.prompt_weights)
             found == UNION {{[current_idx |-> k, prompt_key |-> cand(k)[n]]
                                 : n \in 1..Len(cand(k))} : k \in draws}
             empty == {k \in draws : cand(k) = <<>>}
         IN  found \cup attempt_loop(logic, cs, attempts + 1, empty)

\* expected_keys = [k for k in keys if k != prompt_key]
expected_keys_of(prompt_key) == SelectSeq(keys, LAMBDA k : k # prompt_key)

\* CardLogicQA.get_random_card: every outcome, each [ret, logic, cards].
\* After the loop the card last drawn is current and its questioned counter is
\* incremented; then the list comprehension reads prompt_key, which raises
\* when no iteration assigned it.
qa_get_random_card(logic, cs) ==
    IF logic.cards = <<>>
    THEN {[ret |-> NoCard, logic |-> logic, cards |-> cs]}
    ELSE {LET cur == logic.cards[x.current_idx + 1]
              q1  == cs[cur].questioned + 1
              cs1 == [cs EXCEPT ![cur].questioned = q1,
                                ![cur].row = IF @ = NoneRow THEN @
                                             ELSE SetCell(@, QuestionedCol, IntToStr(q1))]
          IN  [ret   |-> IF x.prompt_key = Unbound
                         THEN [kind |-> "raise"]
                         ELSE [kind |-> "card", card |-> cur,
                               prompt_key |-> x.prompt_key,
                               expected_keys |-> expected_keys_of(x.prompt_key)],
               logic |-> [logic EXCEPT !.current = cur, !.current_idx = x.current_idx],
               cards |-> cs1]
          : x \in attempt_loop(logic, cs, 0, {logic.current_idx})}

\* Variant of the field test that accepts containment in one direction only.
qa_field_ok_one_way(card, key, user_answers) ==
    LET expected == Strip(card[key])
        user     == Strip(IF HasKey(user_answers, key) /\ Truthy(user_answers[key])
                           THEN user_answers[key] ELSE <<>>)
        exp_low  == Lower(expected)
        user_low == Lower(user)
    IN  IF expected = <<>> THEN TRUE
        ELSE user_low = exp_low \/ StrIn(exp_low, user_low)

\* One expected field of check_answer: ok, and the failure entry
\* "<key>: expected '<expected>'".
qa_field_ok(card, key, user_answers) ==
    LET expected == Strip(card[key])
        user     == Strip(IF HasKey(user_answers, key) /\ Truthy(user_answers[key])
                           THEN user_answers[key] ELSE <<>>)
        exp_low  == Lower(expected)
        user_low == Lower(user)
    IN  IF expected = <<>> THEN TRUE
        ELSE user_low = exp_low \/ StrIn(exp_low, user_low) \/ StrIn(user_low, exp_low)

\* Variant of the failure list that stops at the first failing field.
RECURSIVE qa_failures_first_only(_, _, _, _)
qa_failures_first_only(card, expected_keys, user_answers, i) ==
    IF i > Len(expected_keys) THEN <<>>
    ELSE IF qa_field_ok(card, expected_keys[i], user_answers)
         THEN qa_failures_first_only(card, expected_keys, user_answers, i + 1)
         ELSE <<[key |-> expected_keys[i], expected |-> Strip(card[expected_keys[i]])]>>

\* for key in expected_keys: ... failures.append(...)
RECURSIVE qa_failures(_, _, _, _)
qa_failures(card, expected_keys, user_answers, i) ==
    IF i > Len(expected_keys) THEN <<>>
    ELSE (IF qa_field_ok(card, expected_keys[i], user_answers) THEN <<>>
          ELSE <<[key |-> expected_keys[i], expected |-> Strip(card[expected_keys[i]])]>>)
         \o qa_failures(card, expected_keys, user_answers, i + 1)

\* CardLogicQA.check_answer: [correct, msg, cards]; msg is the list of
\* failure entries ("All correct" is the empty list with correct = TRUE).
qa_check_answer(logic, cs, user_answers, expected_keys) ==
    IF logic.current = 0
    THEN [correct |-> FALSE, msg |-> <<[key |-> "No card loaded", expected |-> <<>>]>>,
          cards |-> cs]
    ELSE LET cur == logic.current
             failures == qa_failures(cs[cur], expected_keys, user_answers, 1)
             c1 == cs[cur].correct + 1
         IN  IF failures = <<>>
             THEN [correct |-> TRUE, msg |-> <<>>,
                   cards |-> [cs EXCEPT ![cur].correct = c1,
                                        ![cur].row = IF @ = NoneRow THEN @
                                                     ELSE SetCell(@, CorrectCol, IntToStr(c1))]]
             ELSE [correct |-> FALSE, msg |-> failures, cards |-> cs]

\* ------------------------------------------------------------------ state
VARIABLES
    variant,                \* "simple" (FlashcardApp) or "qa" (FlashcardQAApp)
    csv_file,               \* the data file on disk
    words,                  \* DataManager.words
    cards,                  \* DataManagerQA.cards
    card_logic,             \* the engine the controller holds (NoLogic for None)
    card_count,             \* cards presented in this round
    current_mode,           \* FlashcardApp.current_mode
    current_prompt_key,     \* FlashcardQAApp.current_prompt_key
    current_expected_keys,  \* FlashcardQAApp.current_expected_keys
    selected_types,         \* FlashcardApp.selected_types
    available_types,        \* FlashcardApp.available_types
    filtered_words,         \* FlashcardApp.filtered_words
    window,                 \* "new", "none" (no widgets built), "open", "closed", "crashed"
    card_display,           \* the card and prompt the input widgets show
    last                    \* what the last operation returned and reported

vars == <<variant, csv_file, words, cards, card_logic, card_count, current_mode,
          current_prompt_key, current_expected_keys, selected_types,
          available_types, filtered_words, window, card_display, last>>

NoLogic == [none |-> TRUE]

NoDisplay == [card |-> 0, prompt |-> "-"]

\* Nothing observed yet. sel_*: the selection made in the step, chk_*: the
\* validation made in the step, dialog: the last message box, reply: the
\* answer given to the continue prompt, loaded / warned / created: what
\* load_csv returned, whether it printed the header warning and whether it
\* created the file, types / filtered: the argument and the result of
\* filter_words_by_types, saved: "failed" when the save of the step raised,
\* text / audio / stored: a text, the audio file name the playback side
\* computed for it and the file names the generator stored for it.
NoObs ==
    [op |-> "-", sel_ret |-> "-", sel_card |-> 0, sel_prompt |-> "-",
     sel_expected |-> <<>>, chk |-> "-", chk_card |-> 0, mode |-> "-",
     inputs |-> <<>>, expected_keys |-> <<>>, msg |-> <<>>, dialog |-> "-",
     reply |-> "-", loaded |-> "-", warned |-> FALSE, created |-> FALSE,
     types |-> {}, filtered |-> <<>>, saved |-> "-", text |-> <<>>,
     audio |-> <<>>, stored |-> {}]

\* The state as one record, for the operators that compose the handlers.
St ==
    [variant |-> variant, csv_file |-> csv_file, words |-> words, cards |-> cards,
     card_logic |-> card_logic, card_count |-> card_count,
     current_mode |-> current_mode, current_prompt_key |-> current_prompt_key,
     current_expected_keys |-> current_expected_keys,
     selected_types |-> selected_types, available_types |-> available_types,
     filtered_words |-> filtered_words, window |-> window,
     card_display |-> card_display, last |-> NoObs]

Becomes(S) ==
    /\ variant' = S.variant
    /\ csv_file' = S.csv_file
    /\ words' = S.words
    /\ cards' = S.cards
    /\ card_logic' = S.card_logic
    /\ card_count' = S.card_count
    /\ current_mode' = S.current_mode
    /\ current_prompt_key' = S.current_prompt_key
    /\ current_expected_keys' = S.current_expected_keys
    /\ selected_types' = S.selected_types
    /\ available_types' = S.available_types
    /\ filtered_words' = S.filtered_words
    /\ window' = S.window
    /\ card_display' = S.card_display
    /\ last' = S.last

\* No counter beyond the bound n (the guard that keeps the model finite).
Within(S, n) ==
    /\ \A i \in 1..Len(S.words) : S.words[i].q <= n /\ S.words[i].c <= n
    /\ \A i \in 1..Len(S.cards) : S.cards[i].questioned <= n /\ S.cards[i].correct <= n

\* Variant of the selection step that counts a round even without a card.
select_card_counts_round(S) ==
    {LET T == [S EXCEPT !.card_logic = o.logic, !.words = o.words,
                        !.last.sel_ret = o.ret.kind, !.card_count = @ + 1]
     IN  IF o.ret.kind # "card"
         THEN [T EXCEPT !.last.dialog = "Failed to get card"]
         ELSE [T EXCEPT !.current_mode = o.ret.mode,
                        !.card_display = [card |-> o.ret.card, prompt |-> o.ret.mode],
                        !.last.sel_card = o.ret.card,
                        !.last.sel_prompt = o.ret.mode]
     : o \in get_random_card(S.card_logic, S.words)}

\* ------------------------------------------ FlashcardApp (simple schema)
\* new_card after its round guard: the selection, then the display.
select_card(S) ==
    {LET T == [S EXCEPT !.card_logic = o.logic, !.words = o.words,
                        !.last.sel_ret = o.ret.kind]
     IN  IF o.ret.kind # "card"
         THEN [T EXCEPT !.last.dialog = "Failed to get card"]
         ELSE [T EXCEPT !.current_mode = o.ret.mode,
                        !.card_display = [card |-> o.ret.card, prompt |-> o.ret.mode],
                        !.card_count = @ + 1,
                        !.last.sel_card = o.ret.card,
                        !.last.sel_prompt = o.ret.mode]
     : o \in get_random_card(S.card_logic, S.words)}

\* FlashcardApp.ask_continue: the user's reply is Yes or No.
ask_continue(S) ==
    select_card([S EXCEPT !.card_count = 0, !.last.reply = "yes"])
    \cup {[S EXCEPT !.window = "closed", !.last.reply = "no"]}

\* FlashcardApp.new_card
new_card(S) ==
    IF S.card_count >= MAX_CARDS THEN ask_continue(S) ELSE select_card(S)

\* FlashcardApp.__init__ (and init_ui, which ends with new_card)
app_init(S) ==
    LET ld == load_csv(S.csv_file)
        T  == [S EXCEPT !.csv_file = ld.file, !.words = ld.words,
                        !.last.loaded = IF ld.ok THEN "ok" ELSE "failed",
                        !.last.warned = ld.warned,
                        !.last.created = ld.created]
        types == get_types(ld.words)
        filtered == filter_words_by_types(ld.words, types)
    IN  IF ~ld.ok
        THEN {[T EXCEPT !.window = "none", !.last.dialog = "Failed to load CSV file"]}
        ELSE IF Len(ld.words) = 0
        THEN {[T EXCEPT !.window = "none", !.last.dialog = "No words found in CSV file"]}
        ELSE IF types = {}
        THEN {[T EXCEPT !.window = "none",
                        !.last.dialog = "No card types found in CSV file"]}
        ELSE new_card([T EXCEPT !.selected_types = types,
                                !.available_types = types,
                                !.filtered_words = filtered,
                                !.card_logic = CardLogic(filtered),
                                !.window = "open"])

\* FlashcardApp.on_filter_changed
on_filter_changed(S, selected) ==
    LET T == [S EXCEPT !.selected_types = selected]
        filtered == filter_words_by_types(S.words, selected)
    IN  IF selected = {}
        THEN {[T EXCEPT !.last.dialog = "Please select at least one card type"]}
        ELSE IF filtered = <<>>
        THEN {[T EXCEPT !.filtered_words = filtered,
                        !.last.dialog = "No cards available for selected types"]}
        ELSE new_card([T EXCEPT !.filtered_words = filtered,
                                !.card_logic = CardLogic(filtered),
                                !.card_count = 0])

\* str.title(): a letter is upper-cased after a non-letter, lower-cased after
\* a letter.
IsLetter(ch) == InSeq(Uppers, ch) \/ InSeq(Lowers, ch)

Title(s) == [i \in 1..Len(s) |->
                IF i > 1 /\ IsLetter(s[i - 1]) THEN LowerChar(s[i]) ELSE UpperChar(s[i])]

\* CardDisplay.set_quiz_mode / get_inputs: the prompted field is disabled and
\* holds the card's value, the two others hold what the user typed; every
\* text is stripped.
get_inputs(S, typed) ==
    LET w == S.words[S.card_logic.current]
    IN  [char |-> Strip(IF S.current_mode = "char" THEN w.char ELSE typed.char),
         jyut |-> Strip(IF S.current_mode = "jyut" THEN w.jyut ELSE typed.jyut),
         eng  |-> Strip(IF S.current_mode = "eng" THEN Title(w.eng) ELSE typed.eng)]

\* FlashcardApp.check, for the texts typed in the input widgets
check(S, typed) ==
    IF S.card_logic.current = 0 THEN {S}
    ELSE LET user_inputs == get_inputs(S, typed)
             r == check_answer(S.card_logic, S.words, S.current_mode, user_inputs)
             T == [S EXCEPT !.words = r.words,
                            !.csv_file = save_csv(r.words),
                            !.last.chk = IF r.correct THEN "correct" ELSE "incorrect",
                            !.last.chk_card = S.card_logic.current,
                            !.last.dialog = IF r.correct THEN "Correct!" ELSE "Try Again"]
         IN  IF T.card_count < MAX_CARDS THEN new_card(T) ELSE ask_continue(T)

\* ------------------------------------------ FlashcardQAApp (QA schema)
\* new_card after its round guard. An exception of get_random_card leaves the
\* handler (and ends the program); the engine has already been changed.
qa_select_card(S) ==
    {LET T == [S EXCEPT !.card_logic = o.logic, !.cards = o.cards,
                        !.last.sel_ret = o.ret.kind]
     IN  IF o.ret.kind = "raise"
         THEN [T EXCEPT !.window = "crashed"]
         ELSE IF o.ret.kind # "card"
         THEN [T EXCEPT !.last.dialog = "Failed to get card"]
         ELSE [T EXCEPT !.current_prompt_key = o.ret.prompt_key,
                        !.current_expected_keys = o.ret.expected_keys,
                        !.card_display = [card |-> o.ret.card,
                                          prompt |-> o.ret.prompt_key],
                        !.card_count = @ + 1,
                        !.last.sel_card = o.ret.card,
                        !.last.sel_prompt = o.ret.prompt_key,
                        !.last.sel_expected = o.ret.expected_keys]
     : o \in qa_get_random_card(S.card_logic, S.cards)}

\* FlashcardQAApp.ask_continue
qa_ask_continue(S) ==
    qa_select_card([S EXCEPT !.card_count = 0, !.last.reply = "yes"])
    \cup {[S EXCEPT !.window = "closed", !.last.reply = "no"]}

\* FlashcardQAApp.new_card
qa_new_card(S) ==
    IF S.card_count >= MAX_CARDS THEN qa_ask_continue(S) ELSE qa_select_card(S)

\* FlashcardQAApp.__init__ (and init_ui, which ends with new_card)
qa_app_init(S) ==
    LET ld == qa_load_csv(S.csv_file)
        T  == [S EXCEPT !.cards = ld.cards,
                        !.last.loaded = IF ld.ok THEN "ok" ELSE "failed"]
    IN  IF ~ld.ok
        THEN {[T EXCEPT !.window = "none", !.last.dialog = "Failed to load QA CSV file"]}
        ELSE IF Len(ld.cards) = 0
        THEN {[T EXCEPT !.window = "none",
                        !.last.dialog = "No QA cards found in CSV file"]}
        ELSE qa_new_card([T EXCEPT !.card_logic =
                                       CardLogicQA([i \in 1..Len(ld.cards) |-> i]),
                                   !.window = "open"])

\* FlashcardQAApp.check, for the texts typed in the input widgets
qa_check(S, typed) ==
    IF S.card_logic.current = 0 THEN {S}
    ELSE LET expected_keys == S.current_expected_keys
             user_answers == [k \in {expected_keys[i] : i \in 1..Len(expected_keys)} |->
                                 Strip(typed[k])]
             r == qa_check_answer(S.card_logic, S.cards, user_answers, expected_keys)
             sv == qa_save_csv(S.csv_file, r.cards)
             T == [S EXCEPT !.cards = sv.cards,
                            !.csv_file = sv.file,
                            !.last.chk = IF r.correct THEN "correct" ELSE "incorrect",
                            !.last.chk_card = S.card_logic.current,
                            !.last.dialog = IF r.correct THEN "Correct" ELSE "Incorrect"]
         IN  IF T.card_count < MAX_CARDS THEN qa_new_card(T) ELSE qa_ask_continue(T)

\* ------------------------------------------------------ saves that raise
\* The file after a write that raised: open(csv_file, 'w') failed and the
\* file is as it was, or the file was truncated by open and holds what had
\* been written when the write raised: nothing, or the header and the first
\* rows.
raised_files(old, written) ==
    {old, [exists |-> TRUE, header |-> <<>>, rows |-> <<>>]}
    \cup {[written EXCEPT !.rows = SubSeq(written.rows, 1, k)]
              : k \in 0..(Len(written.rows) - 1)}

\* FlashcardApp.check when save_csv raises: the except clause of save_csv
\* prints the error and check goes on.
check_save_raises(S, typed) ==
    IF S.card_logic.current = 0 THEN {}
    ELSE LET user_inputs == get_inputs(S, typed)
             r == check_answer(S.card_logic, S.words, S.current_mode, user_inputs)
         IN  UNION {LET T == [S EXCEPT !.words = r.words,
                                       !.csv_file = f,
                                       !.last.saved = "failed",
                                       !.last.chk = IF r.correct THEN "correct"
                                                    ELSE "incorrect",
                                       !.last.chk_card = S.card_logic.current,
                                       !.last.dialog = IF r.correct THEN "Correct!"
                                                       ELSE "Try Again"]
                    IN  IF T.card_count < MAX_CARDS THEN new_card(T) ELSE ask_continue(T)
                    : f \in raised_files(S.csv_file, save_csv(r.words))}

\* FlashcardQAApp.check when save_csv raises. The rows are the cards' own
\* _row dicts: those written before the write raised hold the new counter
\* texts.
qa_check_save_raises(S, typed) ==
    IF S.card_logic.current = 0 THEN {}
    ELSE LET expected_keys == S.current_expected_keys
             user_answers == [k \in {expected_keys[i] : i \in 1..Len(expected_keys)} |->
                                 Strip(typed[k])]
             r == qa_check_answer(S.card_logic, S.cards, user_answers, expected_keys)
             sv == qa_save_csv(S.csv_file, r.cards)
         IN  UNION {LET n == IF f = S.csv_file THEN 0 ELSE Len(f.rows)
                        T == [S EXCEPT !.cards = [i \in 1..Len(r.cards) |->
                                                     IF i <= n THEN sv.cards[i]
                                                     ELSE r.cards[i]],
                                       !.csv_file = f,
                                       !.last.saved = "failed",
                                       !.last.chk = IF r.correct THEN "correct"
                                                    ELSE "incorrect",
                                       !.last.chk_card = S.card_logic.current,
                                       !.last.dialog = IF r.correct THEN "Correct"
                                                       ELSE "Incorrect"]
                    IN  IF T.card_count < MAX_CARDS THEN qa_new_card(T)
                        ELSE qa_ask_continue(T)
                    : f \in raised_files(S.csv_file, sv.file)}

\* ------------------------------------------------------ audio file names
\* Two characters in the ranges of CHINESE_RE (each string stands for one
\* character; str.isalnum() is true of them).
ChineseChars == {"CJK1", "CJK2"}

IsChinese(ch) == ch \in ChineseChars

\* str.isalnum() of one character
IsAlnum(ch) == IsChinese(ch) \/ InSeq(Uppers, ch) \/ InSeq(Lowers, ch) \/ InSeq(Digits, ch)

\* CHINESE_RE.findall(text): the maximal runs of Chinese characters, in order
RECURSIVE findall(_, _, _)
findall(text, i, run) ==
    IF i > Len(text) THEN (IF run = <<>> THEN <<>> ELSE <<run>>)
    ELSE IF IsChinese(text[i]) THEN findall(text, i + 1, Append(run, text[i]))
    ELSE (IF run = <<>> THEN <<>> ELSE <<run>>) \o findall(text, i + 1, <<>>)

\* generate_tts.extract_chinese: the set of the runs
extract_chinese(text) ==
    IF text = <<>> THEN {}
    ELSE LET m == findall(text, 1, <<>>) IN {m[i] : i \in 1..Len(m)}

\* ''.join(ch if ch.isalnum() else '_' for ch in text)
alnum_name(text) == [i \in 1..Len(text) |-> IF IsAlnum(text[i]) THEN text[i] ELSE "_"]

WavName(base) == base \o <<".wav">>

\* generate_tts.make_audio: the name of the file written for a text
make_audio(text) == WavName(alnum_name(text))

\* generate_tts.main for one cell of a csv file: the names of the files made
\* for the Chinese runs of the cell
generate_tts(cell) ==
    {make_audio(t) : t \in {r \in extract_chinese(cell) : Strip(r) # <<>>}}

\* FlashcardQAApp.safe_name
safe_name(text) ==
    IF text = <<>> THEN <<>>
    ELSE LET m == findall(text, 1, <<>>)
         IN  IF m # <<>> THEN Join(<<>>, m) ELSE alnum_name(text)

\* FlashcardQAApp.get_audio_path_for_text: the file name of the path
get_audio_path_for_text(text) == WavName(safe_name(text))

\* CardDisplay.get_audio_path: the file name of the path
get_audio_path(text) == WavName(alnum_name(text))

\* ------------------------------------------------- the data files explored
\* The files made of at most n rows of a list of rows, in the order of the list.
Selections(list, n) ==
    {[i \in 1..Len(p) |-> list[p[i]]] :
        p \in {q \in UNION {[1..k -> 1..Len(list)] : k \in 0..n} :
                  \A i \in 1..(Len(q) - 1) : q[i] < q[i + 1]}}

SRow(w, j, e, q, c, t) ==
    [Word |-> w, Jyutping |-> j, English |-> e, Questioned |-> q, Correct |-> c,
     Type |-> t]

\* Rows of a simple-schema file: padded and mixed-case cells, a translation
\* with alternatives, empty cells, a short line (None for its last cells), a
\* translation ending in '/', a row without a word (dropped by load),
\* counters that are not numbers.
SimpleRows ==
    << SRow(<<" ", "W", "X">>, <<"A", "b">>, <<"H", "i", "/", " ", "b">>,
           <<"0">>, <<"0">>, <<"n">>),
      SRow(<<"W">>, <<>>, <<>>, <<"1">>, <<"1">>, <<"v", " ">>),
      SRow(<<"X">>, <<"a">>, <<"a", "/">>, <<"x">>, None, None),
      SRow(<<" ">>, <<"a">>, <<"a">>, <<"1">>, <<"0">>, <<"n">>) >>

SimpleFile(rows) == [exists |-> TRUE, header |-> REQUIRED_HEADERS, rows |-> rows]

SimpleFiles == {SimpleFile(rows) : rows \in Selections(SimpleRows, MaxRows)}

QAHeader ==
    <<KeyText("ChineseQ"), KeyText("JyutpingQ"), KeyText("EnglishQ"),
      KeyText("ChineseA"), KeyText("JyutpingA"), KeyText("EnglishA"),
      QuestionedCol, CorrectCol>>

QRow(cq, jq, eq, ca, ja, ea, q, c) ==
    [h \in {QAHeader[i] : i \in 1..Len(QAHeader)} |->
        CASE h = KeyText("ChineseQ")  -> cq
          [] h = KeyText("JyutpingQ") -> jq
          [] h = KeyText("EnglishQ")  -> eq
          [] h = KeyText("ChineseA")  -> ca
          [] h = KeyText("JyutpingA") -> ja
          [] h = KeyText("EnglishA")  -> ea
          [] h = QuestionedCol        -> q
          [] h = CorrectCol           -> c]

\* Rows of a QA file: one with ChineseQ, one without ChineseQ (the prompt
\* falls back), one without any question field (dropped by load).
QARows ==
    << QRow(<<"W", "X">>, <<"a", "b">>, <<"H", "i">>, <<>>, <<>>, <<" ", "b">>,
           <<"0">>, <<"0">>),
      QRow(<<>>, <<>>, <<"a">>, <<"W", "X">>, <<>>, <<>>, <<"1">>, <<>>),
      QRow(<<>>, <<>>, <<" ">>, <<"W">>, <<>>, <<>>, <<"0">>, <<"0">>) >>

QAFile(rows) == [exists |-> TRUE, header |-> QAHeader, rows |-> rows]

QAFiles == {QAFile(rows) : rows \in Selections(QARows, MaxRows)}

\* A row without the column k / with the column old named new.
Without(row, k) == [x \in (DOMAIN row) \ {k} |-> row[x]]

Renamed(row, old, new) ==
    [x \in ((DOMAIN row) \ {old}) \cup {new} |-> IF x = new THEN row[old] ELSE row[x]]

\* Simple-schema files whose header is not the canonical one (columns
\* reordered, added, renamed, missing), and one with signed and padded
\* counter cells.
SimpleVariantFiles ==
    { [exists |-> TRUE,
       header |-> <<"Type", "Word", "Jyutping", "English", "Questioned", "Correct">>,
       rows |-> <<SimpleRows[1]>>],
      [exists |-> TRUE,
       header |-> REQUIRED_HEADERS \o <<"Note">>,
       rows |-> <<SetCell(SimpleRows[1], "Note", <<"k">>),
                  SetCell(SimpleRows[2], "Note", None)>>],
      [exists |-> TRUE,
       header |-> <<"Character", "Jyutping", "English", "Questioned", "Correct", "Type">>,
       rows |-> <<Renamed(SimpleRows[1], "Word", "Character")>>],
      [exists |-> TRUE,
       header |-> <<"Word", "Jyutping", "English", "Questioned", "Correct">>,
       rows |-> <<Without(SimpleRows[1], "Type")>>],
      [exists |-> TRUE,
       header |-> <<"Word", "Jyutping", "English", "Correct", "Type">>,
       rows |-> <<Without(SimpleRows[4], "Questioned"),
                  Without(SimpleRows[1], "Questioned")>>],
      SimpleFile(<<SRow(<<"W">>, <<"a">>, <<"a">>, <<"-", "3">>, <<" ", "2", " ">>,
                        <<"n">>)>>) }

NoteCol == <<"N", "o", "t", "e">>

\* QA files without the counter columns, with a column the store does not
\* recognise, and with signed, padded and non-numeric counter cells.
QAVariantFiles ==
    { [exists |-> TRUE, header |-> SubSeq(QAHeader, 1, 6),
       rows |-> <<Without(Without(QARows[1], QuestionedCol), CorrectCol),
                  Without(Without(QARows[2], QuestionedCol), CorrectCol)>>],
      [exists |-> TRUE, header |-> <<NoteCol>> \o QAHeader,
       rows |-> <<SetCell(QARows[1], NoteCol, <<"k">>),
                  SetCell(QARows[3], NoteCol, <<"k">>)>>],
      QAFile(<<QRow(<<"W">>, <<>>, <<>>, <<>>, <<>>, <<>>, <<"-", "3">>, <<"+", "1">>),
               QRow(<<"X">>, <<>>, <<>>, <<>>, <<>>, <<>>, <<"x">>, <<" ", "2", " ">>)>>) }

\* Cards handed to CardLogicQA directly (no _row): one with no content at all,
\* one with ChineseQ only, one with answers only.
QACard(cq, eq, ca) ==
    [ChineseQ |-> cq, JyutpingQ |-> <<>>, EnglishQ |-> eq, ChineseA |-> ca,
     JyutpingA |-> <<>>, EnglishA |-> <<>>, questioned |-> 0, correct |-> 0,
     row |-> NoneRow]

DirectCards ==
    << QACard(<<>>, <<>>, <<>>), QACard(<<"W">>, <<>>, <<>>), QACard(<<>>, <<>>, <<"X">>) >>

\* The collections a QA engine is built over: loaded from a file, or direct.
QACollections ==
    {qa_load_csv(f).cards : f \in QAFiles} \cup Selections(DirectCards, MaxRows)

Refs(seq) == [i \in 1..Len(seq) |-> i]

\* ----------------------------------------------------------------- Init
Blank ==
    [variant |-> "simple", csv_file |-> MissingFile, words |-> <<>>, cards |-> <<>>,
     card_logic |-> NoLogic, card_count |-> 0, current_mode |-> "-",
     current_prompt_key |-> "-", current_expected_keys |-> <<>>,
     selected_types |-> {}, available_types |-> {}, filtered_words |-> <<>>,
     window |-> "new", card_display |-> NoDisplay, last |-> NoObs]

Is(S) ==
    /\ variant = S.variant
    /\ csv_file = S.csv_file
    /\ words = S.words
    /\ cards = S.cards
    /\ card_logic = S.card_logic
    /\ card_count = S.card_count
    /\ current_mode = S.current_mode
    /\ current_prompt_key = S.current_prompt_key
    /\ current_expected_keys = S.current_expected_keys
    /\ selected_types = S.selected_types
    /\ available_types = S.available_types
    /\ filtered_words = S.filtered_words
    /\ window = S.window
    /\ card_display = S.card_display
    /\ last = S.last

\* A program about to start on a data file (flashcard.py / flashcard_qa.py).
StartStates ==
    {[Blank EXCEPT !.csv_file = f]
        : f \in SimpleFiles \cup SimpleVariantFiles \cup {MissingFile}}
    \cup {[Blank EXCEPT !.variant = "qa", !.csv_file = f]
              : f \in QAFiles \cup QAVariantFiles \cup {MissingFile}}

Init == \E S \in StartStates : Is(S)

\* An engine built over a collection and the controller that drives it, before
\* the first card: CardLogic(data_manager.get_words()) over the words loaded
\* from a file, CardLogic(filter_words_by_types(types)) over those of some
\* types, CardLogicQA(cards) over a loaded or a given collection.
EngineStates(files, collections) ==
    {[Blank EXCEPT !.csv_file = f, !.words = load_csv(f).words,
                   !.card_logic = CardLogic(Refs(load_csv(f).words)),
                   !.window = "open"] : f \in files}
    \cup UNION {{[Blank EXCEPT !.csv_file = f, !.words = load_csv(f).words,
                     !.card_logic =
                         CardLogic(filter_words_by_types(load_csv(f).words, T)),
                     !.window = "open"] : T \in SUBSET get_types(load_csv(f).words)}
                : f \in files}
    \cup {[Blank EXCEPT !.variant = "qa", !.cards = cs,
                        !.card_logic = CardLogicQA(Refs(cs)),
                        !.window = "open"] : cs \in collections}

InitEngine == \E S \in EngineStates(SimpleFiles, QACollections) : Is(S)

\* One-item collections, for the validation of answers.
InitValidate ==
    \E S \in EngineStates({f \in SimpleFiles : Len(f.rows) = 1},
                          {cs \in QACollections : Len(cs) = 1}) : Is(S)

\* ------------------------------------------------------ what the user types
CharInputs == {<<>>, <<"W">>, <<" ", "W", "X", " ">>, <<"w", "x">>}
JyutInputs == {<<>>, <<"A", "B">>, <<"a">>, <<"b", " ", "a">>}
EngInputs  == {<<>>, <<"H", "I">>, <<" ", "b">>, <<"h">>, <<"h", "i", "/", " ", "b">>}

UserInputs == [char : CharInputs, jyut : JyutInputs, eng : EngInputs]

QAInputs == {<<>>, <<"W", " ">>, <<"a", "b">>}

KeySet == {keys[i] : i \in 1..Len(keys)}

\* What is typed during a session: nothing, the answers of the first row, or
\* a wrong text everywhere.
TypedSimple ==
    { [char |-> <<>>, jyut |-> <<>>, eng |-> <<>>],
      [char |-> <<"W", "X">>, jyut |-> <<"a", "b">>, eng |-> <<"H", "i">>],
      [char |-> <<"Q">>, jyut |-> <<"Q">>, eng |-> <<"Q">>] }

TypedQA == { [k \in KeySet |-> <<>>], [k \in KeySet |-> <<"Q">>] }

\* The weights a client passes to set_prompt_weights.
WeightArgs == {("ChineseQ" :> 0), ("ChineseQ" :> 1), ("ChineseA" :> 0), ("ChineseA" :> 1)}

\* ------------------------------------------------------- engine operations
\* card_logic.get_random_card()
GetRandomCard ==
    /\ variant = "simple" /\ window = "open"
    /\ \E o \in get_random_card(card_logic, words) :
          LET S == [St EXCEPT !.card_logic = o.logic, !.words = o.words,
                              !.last.op = "get_random_card",
                              !.last.sel_ret = o.ret.kind,
                              !.last.sel_card = IF o.ret.kind = "card" THEN o.ret.card ELSE 0,
                              !.last.sel_prompt = IF o.ret.kind = "card" THEN o.ret.mode ELSE "-"]
          IN  Within(S, MaxCount) /\ Becomes(S)

\* card_logic.check_answer(mode, user_inputs), once per card drawn
CheckAnswer ==
    /\ variant = "simple" /\ window = "open"
    /\ last.op = "get_random_card"
    /\ \E mode \in Modes, user_inputs \in UserInputs :
          LET r == check_answer(card_logic, words, mode, user_inputs)
              S == [St EXCEPT !.words = r.words,
                              !.last.op = "check_answer",
                              !.last.chk = IF r.correct THEN "correct" ELSE "incorrect",
                              !.last.chk_card = card_logic.current,
                              !.last.mode = mode,
                              !.last.inputs = user_inputs,
                              !.last.msg = r.msg]
          IN  Within(S, MaxCount) /\ Becomes(S)

\* card_logic.get_random_card() of the QA engine
QAGetRandomCard ==
    /\ variant = "qa" /\ window = "open"
    /\ \E o \in qa_get_random_card(card_logic, cards) :
          LET S == [St EXCEPT !.card_logic = o.logic, !.cards = o.cards,
                              !.last.op = "get_random_card",
                              !.last.sel_ret = o.ret.kind,
                              !.last.sel_card = IF o.ret.kind = "card" THEN o.ret.card ELSE 0,
                              !.last.sel_prompt =
                                  IF o.ret.kind = "card" THEN o.ret.prompt_key ELSE "-",
                              !.last.sel_expected =
                                  IF o.ret.kind = "card" THEN o.ret.expected_keys ELSE <<>>]
          IN  Within(S, MaxCount) /\ Becomes(S)

\* card_logic.check_answer(user_answers, expected_keys) of the QA engine, for
\* the expected keys of some prompt, once per card drawn
QACheckAnswer ==
    /\ variant = "qa" /\ window = "open"
    /\ last.op = "get_random_card"
    /\ \E pk \in KeySet :
       \E user_answers \in [KeySet \ {pk} -> QAInputs] :
          LET r == qa_check_answer(card_logic, cards, user_answers, expected_keys_of(pk))
              S == [St EXCEPT !.cards = r.cards,
                              !.last.op = "check_answer",
                              !.last.chk = IF r.correct THEN "correct" ELSE "incorrect",
                              !.last.chk_card = card_logic.current,
                              !.last.inputs = user_answers,
                              !.last.expected_keys = expected_keys_of(pk),
                              !.last.msg = r.msg]
          IN  Within(S, MaxCount) /\ Becomes(S)

\* card_logic.set_prompt_weights(weights)
SetPromptWeights ==
    /\ variant = "qa" /\ window = "open"
    /\ \E weights \in WeightArgs :
          Becomes([St EXCEPT !.card_logic = set_prompt_weights(card_logic, weights),
                             !.last.op = "set_prompt_weights"])

\* ------------------------------------------------------ controller handlers
\* FlashcardApp(csv_file)
AppInit ==
    /\ variant = "simple" /\ window = "new"
    /\ \E S \in app_init([St EXCEPT !.last.op = "init"]) :
          Within(S, MaxCount) /\ Becomes(S)

\* The Next Card button
NewCard ==
    /\ variant = "simple" /\ window = "open"
    /\ \E S \in new_card([St EXCEPT !.last.op = "new_card"]) :
          Within(S, MaxCount) /\ Becomes(S)

\* The Check Answer button, or Enter in an input field
Check ==
    /\ variant = "simple" /\ window = "open"
    /\ \E typed \in TypedSimple :
       \E S \in check([St EXCEPT !.last.op = "check"], typed) :
          Within(S, MaxCount) /\ Becomes(S)

\* A type checkbox is toggled
OnFilterChanged ==
    /\ variant = "simple" /\ window = "open"
    /\ \E t \in available_types :
       \E S \in on_filter_changed([St EXCEPT !.last.op = "on_filter_changed"],
                                  IF t \in selected_types
                                  THEN selected_types \ {t}
                                  ELSE selected_types \cup {t}) :
          Within(S, MaxCount) /\ Becomes(S)

\* FlashcardQAApp(csv_file)
QAAppInit ==
    /\ variant = "qa" /\ window = "new"
    /\ \E S \in qa_app_init([St EXCEPT !.last.op = "init"]) :
          Within(S, MaxCount) /\ Becomes(S)

QANewCard ==
    /\ variant = "qa" /\ window = "open"
    /\ \E S \in qa_new_card([St EXCEPT !.last.op = "new_card"]) :
          Within(S, MaxCount) /\ Becomes(S)

QACheck ==
    /\ variant = "qa" /\ window = "open"
    /\ \E typed \in TypedQA :
       \E S \in qa_check([St EXCEPT !.last.op = "check"], typed) :
          Within(S, MaxCount) /\ Becomes(S)

\* ------------------------------------------------------- store operations
\* The type lists a client passes to filter_words_by_types.
TypeArgs == SUBSET {<<"n">>, <<"v">>, <<"z">>, <<>>}

\* data_manager.load_csv() of a new DataManager, then CardLogic(get_words())
LoadCsv ==
    /\ variant = "simple" /\ window = "new"
    /\ LET ld == load_csv(csv_file)
       IN  Becomes([St EXCEPT !.csv_file = ld.file, !.words = ld.words,
                              !.card_logic = CardLogic(Refs(ld.words)),
                              !.window = IF ld.ok THEN "open" ELSE "none",
                              !.last.op = "load_csv",
                              !.last.loaded = IF ld.ok THEN "ok" ELSE "failed",
                              !.last.warned = ld.warned,
                              !.last.created = ld.created])

\* data_manager.save_csv()
SaveCsv ==
    /\ variant = "simple" /\ window = "open"
    /\ Becomes([St EXCEPT !.csv_file = save_csv(words), !.last.op = "save_csv"])

\* data_manager.filter_words_by_types(selected_types): the list returned
FilterWordsByTypes ==
    /\ variant = "simple" /\ window = "open"
    /\ \E selected \in TypeArgs :
          Becomes([St EXCEPT !.last.op = "filter_words_by_types",
                             !.last.types = selected,
                             !.last.filtered = filter_words_by_types(words, selected)])

\* card_logic.get_random_card() by a client that counts the cards it draws
\* and draws at most MaxCount of them
Draw ==
    /\ variant = "simple" /\ window = "open"
    /\ card_count < MaxCount
    /\ \E o \in get_random_card(card_logic, words) :
          Becomes([St EXCEPT !.card_logic = o.logic, !.words = o.words,
                             !.card_count = @ + 1,
                             !.last.op = "get_random_card",
                             !.last.sel_ret = o.ret.kind,
                             !.last.sel_card = IF o.ret.kind = "card" THEN o.ret.card ELSE 0,
                             !.last.sel_prompt =
                                 IF o.ret.kind = "card" THEN o.ret.mode ELSE "-"])

\* card_logic.check_answer(mode, user_inputs) for the mode of the card drawn
\* and the texts of a session
Answer ==
    /\ variant = "simple" /\ window = "open"
    /\ last.op = "get_random_card" /\ last.sel_ret = "card"
    /\ \E typed \in TypedSimple :
          LET r == check_answer(card_logic, words, last.sel_prompt, typed)
              S == [St EXCEPT !.words = r.words,
                              !.last.op = "check_answer",
                              !.last.chk = IF r.correct THEN "correct" ELSE "incorrect",
                              !.last.chk_card = card_logic.current,
                              !.last.mode = last.sel_prompt]
          IN  Becomes(S)

\* data_manager.load_csv() of a new DataManagerQA, then CardLogicQA(get_cards())
QALoadCsv ==
    /\ variant = "qa" /\ window = "new"
    /\ LET ld == qa_load_csv(csv_file)
       IN  Becomes([St EXCEPT !.cards = ld.cards,
                              !.card_logic = CardLogicQA(Refs(ld.cards)),
                              !.window = IF ld.ok THEN "open" ELSE "none",
                              !.last.op = "load_csv",
                              !.last.loaded = IF ld.ok THEN "ok" ELSE "failed"])

\* data_manager.save_csv() of the QA store
QASaveCsv ==
    /\ variant = "qa" /\ window = "open"
    /\ LET sv == qa_save_csv(csv_file, cards)
       IN  Becomes([St EXCEPT !.csv_file = sv.file, !.cards = sv.cards,
                              !.last.op = "save_csv"])

\* card_logic.get_random_card() of the QA engine, by the same client
QADraw ==
    /\ variant = "qa" /\ window = "open"
    /\ card_count < MaxCount
    /\ \E o \in qa_get_random_card(card_logic, cards) :
          Becomes([St EXCEPT !.card_logic = o.logic, !.cards = o.cards,
                             !.card_count = @ + 1,
                             !.last.op = "get_random_card",
                             !.last.sel_ret = o.ret.kind,
                             !.last.sel_card = IF o.ret.kind = "card" THEN o.ret.card ELSE 0,
                             !.last.sel_prompt =
                                 IF o.ret.kind = "card" THEN o.ret.prompt_key ELSE "-",
                             !.last.sel_expected =
                                 IF o.ret.kind = "card" THEN o.ret.expected_keys ELSE <<>>])

\* card_logic.check_answer(user_answers, expected_keys) for the expected keys
\* of the card drawn and the texts of a session
QAAnswer ==
    /\ variant = "qa" /\ window = "open"
    /\ last.op = "get_random_card" /\ last.sel_ret = "card"
    /\ \E typed \in TypedQA :
          LET r == qa_check_answer(card_logic, cards, typed, last.sel_expected)
              S == [St EXCEPT !.cards = r.cards,
                              !.last.op = "check_answer",
                              !.last.chk = IF r.correct THEN "correct" ELSE "incorrect",
                              !.last.chk_card = card_logic.current,
                              !.last.expected_keys = last.sel_expected]
          IN  Becomes(S)

\* ---------------------------------------------------------- specifications
\* The two programs, driven through their windows.
Next ==
    \/ AppInit
    \/ NewCard
    \/ Check
    \/ OnFilterChanged
    \/ QAAppInit
    \/ QANewCard
    \/ QACheck

Spec == Init /\ [][Next]_vars

\* The two programs started on a file whose counters are in order: the
\* collection a load of the file gives has correct <= questioned for every
\* item.
LoadedInOrder ==
    IF variant = "simple"
    THEN LET ws == load_csv(csv_file).words
         IN  \A i \in 1..Len(ws) : ws[i].c <= ws[i].q
    ELSE LET cs == qa_load_csv(csv_file).cards
         IN  \A i \in 1..Len(cs) : cs[i].correct <= cs[i].questioned

InitOrdered == \E S \in StartStates : Is(S) /\ LoadedInOrder

SpecOrdered == InitOrdered /\ [][Next]_vars

\* The engines called directly, and the controller's new_card on top of them.
NextEngine ==
    \/ GetRandomCard
    \/ NewCard
    \/ QAGetRandomCard
    \/ QANewCard
    \/ SetPromptWeights

SpecEngine == InitEngine /\ [][NextEngine]_vars

\* Selection and validation on one item, with every input text.
NextValidate ==
    \/ GetRandomCard
    \/ CheckAnswer
    \/ QAGetRandomCard
    \/ QACheckAnswer

SpecValidate == InitValidate /\ [][NextValidate]_vars

\* The record stores called directly: load, selections and validations on
\* the loaded collection, filter, save.
NextStore ==
    \/ LoadCsv
    \/ SaveCsv
    \/ FilterWordsByTypes
    \/ Draw
    \/ Answer
    \/ QALoadCsv
    \/ QASaveCsv
    \/ QADraw
    \/ QAAnswer

SpecStore == Init /\ [][NextStore]_vars

\* The sum of the first n numbers of a sequence.
RECURSIVE SumTo(_, _)
SumTo(seq, n) ==
    IF n = 0 THEN 0 ELSE SumTo(seq, n - 1) + seq[n]

\* ------------------------------------------------------------ whole rounds
\* The two programs on one-item files, with counters that may grow past a
\* whole round of MAX_CARDS cards.
RoundCap == MAX_CARDS + MaxCount

RoundStates ==
    {[Blank EXCEPT !.csv_file = SimpleFile(<<SimpleRows[1]>>)],
     [Blank EXCEPT !.variant = "qa", !.csv_file = QAFile(<<QARows[1]>>)]}

InitRound == \E S \in RoundStates : Is(S)

\* The total of the questioned counters stays within RoundCap.
WithinRound(S) ==
    SumTo([i \in 1..Len(S.words) |-> S.words[i].q], Len(S.words))
        + SumTo([i \in 1..Len(S.cards) |-> S.cards[i].questioned], Len(S.cards))
            <= RoundCap

\* FlashcardApp(csv_file)
RoundAppInit ==
    /\ variant = "simple" /\ window = "new"
    /\ \E S \in app_init([St EXCEPT !.last.op = "init"]) : Becomes(S)

\* The Next Card button
RoundNewCard ==
    /\ variant = "simple" /\ window = "open"
    /\ \E S \in new_card([St EXCEPT !.last.op = "new_card"]) :
          WithinRound(S) /\ Becomes(S)

\* The Check Answer button
RoundCheck ==
    /\ variant = "simple" /\ window = "open"
    /\ \E typed \in TypedSimple :
       \E S \in check([St EXCEPT !.last.op = "check"], typed) :
          WithinRound(S) /\ Becomes(S)

\* A type checkbox is toggled
RoundFilterChanged ==
    /\ variant = "simple" /\ window = "open"
    /\ \E t \in available_types :
       \E S \in on_filter_changed([St EXCEPT !.last.op = "on_filter_changed"],
                                  IF t \in selected_types
                                  THEN selected_types \ {t}
                                  ELSE selected_types \cup {t}) :
          WithinRound(S) /\ Becomes(S)

\* FlashcardQAApp(csv_file)
RoundQAAppInit ==
    /\ variant = "qa" /\ window = "new"
    /\ \E S \in qa_app_init([St EXCEPT !.last.op = "init"]) : Becomes(S)

RoundQANewCard ==
    /\ variant = "qa" /\ window = "open"
    /\ \E S \in qa_new_card([St EXCEPT !.last.op = "new_card"]) :
          WithinRound(S) /\ Becomes(S)

RoundQACheck ==
    /\ variant = "qa" /\ window = "open"
    /\ \E typed \in TypedQA :
       \E S \in qa_check([St EXCEPT !.last.op = "check"], typed) :
          WithinRound(S) /\ Becomes(S)

NextRound ==
    \/ RoundAppInit
    \/ RoundNewCard
    \/ RoundCheck
    \/ RoundFilterChanged
    \/ RoundQAAppInit
    \/ RoundQANewCard
    \/ RoundQACheck

SpecRound == InitRound /\ [][NextRound]_vars

\* ------------------------------------------------------ sessions with saves that raise
\* The two programs about to start on a file of two rows.
SaveStates ==
    {[Blank EXCEPT !.csv_file = SimpleFile(<<SimpleRows[1], SimpleRows[2]>>)],
     [Blank EXCEPT !.variant = "qa", !.csv_file = QAFile(<<QARows[1], QARows[2]>>)]}

InitSave == \E S \in SaveStates : Is(S)

\* The Check Answer button when the save raises
CheckSaveRaises ==
    /\ variant = "simple" /\ window = "open"
    /\ \E typed \in TypedSimple :
       \E S \in check_save_raises([St EXCEPT !.last.op = "check"], typed) :
          Within(S, MaxCount) /\ Becomes(S)

QACheckSaveRaises ==
    /\ variant = "qa" /\ window = "open"
    /\ \E typed \in TypedQA :
       \E S \in qa_check_save_raises([St EXCEPT !.last.op = "check"], typed) :
          Within(S, MaxCount) /\ Becomes(S)

NextSave ==
    \/ AppInit
    \/ NewCard
    \/ Check
    \/ CheckSaveRaises
    \/ QAAppInit
    \/ QANewCard
    \/ QACheck
    \/ QACheckSaveRaises

SpecSave == InitSave /\ [][NextSave]_vars

\* ------------------------------------------------------ audio file names of texts
\* The characters of the texts: Chinese characters, a letter, a punctuation
\* mark, a space.
TextChars == ChineseChars \cup {"a", ",", " "}

Texts == UNION {[1..n -> TextChars] : n \in 0..MaxText}

\* A program showing a text whose audio is asked for, and the generator
\* reading the same text in a cell of a csv file.
AudioStates ==
    {[Blank EXCEPT !.variant = v, !.window = "open", !.last.text = t]
        : v \in {"simple", "qa"}, t \in Texts}

InitAudio == \E S \in AudioStates : Is(S)

\* FlashcardQAApp computes the path of the audio of the text
GetAudioPathForText ==
    /\ variant = "qa" /\ last.op = "-"
    /\ Becomes([St EXCEPT !.last.op = "get_audio_path_for_text",
                          !.last.text = last.text,
                          !.last.audio = get_audio_path_for_text(last.text)])

\* CardDisplay computes the path of the audio of the text
GetAudioPath ==
    /\ variant = "simple" /\ last.op = "-"
    /\ Becomes([St EXCEPT !.last.op = "get_audio_path",
                          !.last.text = last.text,
                          !.last.audio = get_audio_path(last.text)])

\* The generator stores the audio of the text
GenerateTts ==
    /\ last.op \in {"get_audio_path_for_text", "get_audio_path"}
    /\ Becomes([St EXCEPT !.last.op = "generate_tts",
                          !.last.text = last.text,
                          !.last.audio = last.audio,
                          !.last.stored = generate_tts(last.text)])

NextAudio ==
    \/ GetAudioPathForText
    \/ GetAudioPath
    \/ GenerateTts

SpecAudio == InitAudio /\ [][NextAudio]_vars

\* ------------------------------------------------------------------ claims
\* The counters of item i, in either schema.
QuestionedOf(ws, cs, i) == IF variant = "simple" THEN ws[i].q ELSE cs[i].questioned

CorrectOf(ws, cs, i) == IF variant = "simple" THEN ws[i].c ELSE cs[i].correct

ItemCount(ws, cs) == IF variant = "simple" THEN Len(ws) ELSE Len(cs)

\* C1: in both schemas, a selection call that returns a card leaves the
\* questioned counter of the returned item exactly 1 above its value before
\* the call.
C1_SelectionIncrementsQuestioned ==
    [][last'.sel_ret = "card" =>
          QuestionedOf(words', cards', last'.sel_card)
              = QuestionedOf(words, cards, last'.sel_card) + 1]_vars

\* A QA card without ChineseQ has been returned for the second time.
C1_Witness ==
    /\ variant = "qa" /\ last.op = "get_random_card" /\ last.sel_ret = "card"
    /\ cards[last.sel_card].ChineseQ = <<>>
    /\ cards[last.sel_card].questioned = 2

\* C2: in both schemas a correct counter changes only in a step whose
\* validation returned correct, then by exactly 1 and on the item that was
\* current; new cards, filter changes, saves and incorrect validations leave
\* every correct counter alone.
C2_CorrectOnlyOnCorrectValidation ==
    [][/\ \A i \in 1..ItemCount(words, cards) :
             (i <= ItemCount(words', cards')
                 /\ CorrectOf(words', cards', i) # CorrectOf(words, cards, i))
             => /\ last'.chk = "correct"
                /\ i = last'.chk_card
       /\ last'.chk = "correct"
             => /\ last'.chk_card = card_logic.current
                /\ CorrectOf(words', cards', last'.chk_card)
                       = CorrectOf(words, cards, last'.chk_card) + 1]_vars

\* A check of the simple session was scored correct after a filter change
\* had rebuilt the engine.
C2_Witness ==
    /\ variant = "simple" /\ last.op = "check" /\ last.chk = "correct"
    /\ selected_types # available_types
    /\ words[last.chk_card].c = 1

\* ---- validation of answers, simple schema
\* a occurs in b as a run of consecutive characters
Occurs(a, b) ==
    \E i \in 0..Len(b) : \E j \in i..Len(b) : SubSeq(b, i + 1, j) = a

\* The alternatives of a translation: the trimmed texts between consecutive
\* '/' (or an end of the text).
Alternatives(s) ==
    {Strip(SubSeq(s, i, j)) : <<i, j>> \in
        {p \in (1..(Len(s) + 1)) \X (0..Len(s)) :
            /\ p[2] >= p[1] - 1
            /\ p[1] = 1 \/ s[p[1] - 1] = "/"
            /\ p[2] = Len(s) \/ s[p[2] + 1] = "/"
            /\ \A n \in p[1]..p[2] : s[n] # "/"}}

SimpleChecked == variant = "simple" /\ last.op = "check_answer" /\ last.chk_card # 0

CheckedWord == words[last.chk_card]

\* C3: a non-prompted Character or Phonetic field passes only if the trimmed
\* input is a case-insensitive exact match of the expected value (so an empty
\* input or a proper substring of the expected value is rejected).
C3_ExactMatchOnly ==
    SimpleChecked =>
        \A n \in 1..Len(last.msg) :
            /\ (last.msg[n].tested = "Chinese" /\ last.msg[n].verdict = "Correct!")
                  => Lower(Strip(last.inputs.char)) = Lower(CheckedWord.char)
            /\ (last.msg[n].tested = "Jyutping" /\ last.msg[n].verdict = "Correct!")
                  => Lower(Strip(last.inputs.jyut)) = Lower(CheckedWord.jyut)

\* C4: for an item obtained from load, a non-prompted Translation field that
\* is evaluated passes exactly when the trimmed, lower-cased input is one of
\* the alternatives of the item's translation.
C4_TranslationAlternatives ==
    SimpleChecked =>
        \A n \in 1..Len(last.msg) :
            last.msg[n].tested = "English"
                => (last.msg[n].verdict = "Correct!"
                        <=> Lower(Strip(last.inputs.eng)) \in Alternatives(CheckedWord.eng))

\* The upper-case input HI was accepted for the translation "hi/ b".
C4_Witness ==
    /\ SimpleChecked
    /\ last.inputs.eng = <<"H", "I">>
    /\ CheckedWord.eng = <<"h", "i", "/", " ", "b">>
    /\ \E n \in 1..Len(last.msg) :
          last.msg[n].tested = "English" /\ last.msg[n].verdict = "Correct!"

\* The engine's own test of one field (C3 is about how strict it is).
FieldNames == <<"char", "jyut", "eng">>

Tested(f) == CASE f = "char" -> "Chinese" [] f = "jyut" -> "Jyutping" [] f = "eng" -> "English"

FieldMatches(f) ==
    CASE f = "char" -> Occurs(Strip(last.inputs.char), CheckedWord.char)
      [] f = "jyut" -> Occurs(Lower(Strip(last.inputs.jyut)), Lower(CheckedWord.jyut))
      [] f = "eng"  -> Lower(Strip(last.inputs.eng)) \in Alternatives(CheckedWord.eng)

ExpectedText(f) ==
    CASE f = "char" -> CheckedWord.char
      [] f = "jyut" -> Lower(CheckedWord.jyut)
      [] f = "eng"  -> LET parts == Split(CheckedWord.eng, "/")
                       IN  Join(<<" ", "/", " ">>, [i \in 1..Len(parts) |-> Strip(parts[i])])

NonPrompted == SelectSeq(FieldNames, LAMBDA f : f # last.mode)

QAChecked == variant = "qa" /\ last.op = "check_answer" /\ last.chk_card # 0

CheckedCard == cards[last.chk_card]

QAPasses(k) ==
    LET exp == Lower(Strip(CheckedCard[k]))
        usr == Lower(Strip(last.inputs[k]))
    IN  \/ Strip(CheckedCard[k]) = <<>>
        \/ usr = exp
        \/ Occurs(exp, usr)
        \/ Occurs(usr, exp)

HasEntry(k) == \E n \in 1..Len(last.msg) : last.msg[n].key = k

\* C6: an expected field passes exactly when its expected value is empty, or
\* the trimmed lower-cased input equals it, or one of the two contains the
\* other; the round is correct exactly when every expected field passes.
C6_LenientMatch ==
    QAChecked =>
        /\ \A n \in 1..Len(last.expected_keys) :
              QAPasses(last.expected_keys[n]) <=> ~HasEntry(last.expected_keys[n])
        /\ last.chk = "correct"
              <=> \A n \in 1..Len(last.expected_keys) : QAPasses(last.expected_keys[n])

\* A round was scored correct with one field accepted because the input is a
\* proper part of the expected value and another because the expected value
\* is a proper part of the input.
C6_Witness ==
    /\ QAChecked /\ last.chk = "correct"
    /\ \E k \in DOMAIN last.inputs :
          /\ Strip(last.inputs[k]) # <<>>
          /\ Len(Strip(last.inputs[k])) < Len(CheckedCard[k])
    /\ \E k \in DOMAIN last.inputs :
          /\ CheckedCard[k] # <<>>
          /\ Len(Strip(last.inputs[k])) > Len(CheckedCard[k])

\* C7: when the validation returns incorrect, the message holds one entry for
\* every expected field that failed, in order, with that field's expected
\* value, and none for a field that passed.
C7_AllFailuresReported ==
    (QAChecked /\ last.chk = "incorrect") =>
        LET failed == SelectSeq(last.expected_keys, LAMBDA k : ~QAPasses(k))
        IN  /\ failed # <<>>
            /\ last.msg = [n \in 1..Len(failed) |->
                              [key |-> failed[n], expected |-> Strip(CheckedCard[failed[n]])]]

\* Two fields failed and a third, with a non-empty expected value, passed.
C7_Witness ==
    /\ QAChecked /\ last.chk = "incorrect" /\ Len(last.msg) = 2
    /\ \E n \in 1..Len(last.expected_keys) :
          /\ CheckedCard[last.expected_keys[n]] # <<>>
          /\ ~HasEntry(last.expected_keys[n])

\* ---- selection, QA schema
ChineseQOnly == [k \in KeySet |-> IF k = "ChineseQ" THEN 1 ELSE 0]

\* C8: a new QA engine has weight 1 for ChineseQ and 0 elsewhere; with these
\* weights a successful selection prompts ChineseQ whenever the chosen item
\* has it; the prompt is always a non-empty field of the item and the expected
\* fields are the five other canonical fields.
C8_DefaultPrompt ==
    variant = "qa" =>
        /\ last.op = "-" => card_logic.prompt_weights = ChineseQOnly
        /\ last.sel_ret = "card" =>
              LET card == cards[last.sel_card]
                  pk   == last.sel_prompt
              IN  /\ pk \in KeySet
                  /\ card[pk] # <<>>
                  /\ (card_logic.prompt_weights = ChineseQOnly /\ card.ChineseQ # <<>>)
                        => pk = "ChineseQ"
                  /\ Len(last.sel_expected) = 5
                  /\ {last.sel_expected[n] : n \in 1..5} = KeySet \ {pk}

\* With the default weights an item without ChineseQ was prompted by its
\* ChineseA field.
C8_Witness ==
    /\ variant = "qa" /\ last.sel_ret = "card"
    /\ card_logic.prompt_weights = ChineseQOnly
    /\ cards[last.sel_card].ChineseQ = <<>>
    /\ last.sel_prompt = "ChineseA"

\* C9: over a non-empty collection whose items have every canonical field
\* empty, the selection returns the no-card signal: it does not raise and it
\* increments no questioned counter.
C9_ExhaustionReturnsNoCard ==
    (/\ variant = "qa" /\ last.op = "get_random_card"
     /\ Len(cards) > 0
     /\ \A i \in 1..Len(cards) : \A k \in KeySet : cards[i][k] = <<>>)
        => /\ last.sel_ret = "none"
           /\ \A i \in 1..Len(cards) : cards[i].questioned = 0

\* ---- selection from an empty collection
EmptyEngine ==
    IF variant = "simple" THEN card_logic.words = <<>> ELSE card_logic.cards = <<>>

\* C10: a selection from an empty collection returns the no-card signal
\* without raising and changes neither the current item nor any counter; the
\* controller then shows no card, does not advance the round counter and
\* stays open.
C10_EmptySelection ==
    [][(EmptyEngine /\ last'.op \in {"get_random_card", "new_card"})
          => /\ last'.sel_ret = "none"
             /\ words' = words /\ cards' = cards
             /\ card_logic' = card_logic
             /\ card_display' = card_display
             /\ card_count' = card_count
             /\ window' = window]_vars

\* The Next Card button was pressed on an engine whose filtered list is empty
\* although words are loaded: the error dialog, no card, no round.
C10_Witness ==
    /\ variant = "simple" /\ last.op = "new_card" /\ last.sel_ret = "none"
    /\ Len(words) > 0 /\ card_logic.words = <<>>
    /\ last.dialog = "Failed to get card"
    /\ card_display = NoDisplay /\ card_count = 0 /\ window = "open"

\* ---- the record stores
\* C11: filter_words_by_types(enabled) returns exactly the loaded items whose
\* trimmed Type is in the enabled set, each once and in the order of the
\* collection, and the empty list when the enabled set is empty.
C11_FilterByTypes ==
    (variant = "simple" /\ last.op = "filter_words_by_types") =>
        LET f == last.filtered
        IN  /\ \A n \in 1..Len(f) :
                  f[n] \in 1..Len(words) /\ Strip(words[f[n]].type) \in last.types
            /\ \A i \in 1..Len(words) :
                  Strip(words[i].type) \in last.types => \E n \in 1..Len(f) : f[n] = i
            /\ \A m, n \in 1..Len(f) : m < n => f[m] < f[n]
            /\ last.types = {} => f = <<>>

\* A filter that kept the second and third of three items and left out the
\* first.
C11_Witness ==
    /\ variant = "simple" /\ last.op = "filter_words_by_types"
    /\ Len(words) = 3 /\ last.filtered = <<2, 3>>

\* C12: in the filtered session, while the set of enabled types is empty, a
\* Next-card or check action selects no item: no questioned counter is
\* incremented and no new card is presented.
C12_NoSelectionWhileFilterEmpty ==
    [][(/\ variant = "simple" /\ window = "open" /\ selected_types = {}
        /\ last'.op \in {"new_card", "check"})
          => /\ last'.sel_ret # "card"
             /\ \A i \in 1..Len(words) : words'[i].q = words[i].q
             /\ card_display' = card_display]_vars

\* C13: the simple store's load on a path where no file exists creates a file
\* holding only the canonical header row, reports success and leaves the
\* collection empty.
C13_MissingFileCreated ==
    [][(variant = "simple" /\ ~csv_file.exists /\ last'.op = "load_csv")
          => /\ csv_file' = [exists |-> TRUE, header |-> <<"Word", "Jyutping", "English", "Questioned",
                                                        "Correct", "Type">>,
                              rows |-> <<>>]
             /\ last'.loaded = "ok"
             /\ words' = <<>>]_vars

\* The load that created the file has happened.
C13_Witness ==
    /\ variant = "simple" /\ last.op = "load_csv" /\ last.created
    /\ csv_file.exists /\ csv_file.rows = <<>> /\ words = <<>> /\ window = "open"

\* C14: the QA store's load on a path where no file exists creates a file
\* holding only the header row and returns an empty collection as a success.
C14_QAMissingFileCreated ==
    [][(variant = "qa" /\ ~csv_file.exists /\ last'.op = "load_csv")
          => /\ csv_file'.exists /\ csv_file'.rows = <<>>
             /\ last'.loaded = "ok"
             /\ cards' = <<>>]_vars

\* The simple words ws are those of the collection ms: same items in the same
\* order, same counters and identifying fields, translations up to case.
SameWords(ws, ms) ==
    /\ Len(ws) = Len(ms)
    /\ \A i \in 1..Len(ms) :
          /\ ws[i].char = ms[i].char /\ ws[i].jyut = ms[i].jyut
          /\ Lower(ws[i].eng) = Lower(ms[i].eng)
          /\ ws[i].type = ms[i].type
          /\ ws[i].q = ms[i].q /\ ws[i].c = ms[i].c

\* The same for QA cards.
SameCards(cs, ms) ==
    /\ Len(cs) = Len(ms)
    /\ \A i \in 1..Len(ms) :
          /\ cs[i].ChineseQ = ms[i].ChineseQ /\ cs[i].JyutpingQ = ms[i].JyutpingQ
          /\ Lower(cs[i].EnglishQ) = Lower(ms[i].EnglishQ)
          /\ cs[i].ChineseA = ms[i].ChineseA /\ cs[i].JyutpingA = ms[i].JyutpingA
          /\ Lower(cs[i].EnglishA) = Lower(ms[i].EnglishA)
          /\ cs[i].questioned = ms[i].questioned /\ cs[i].correct = ms[i].correct

\* C15: round-trip law. After a save, loading the saved file in a fresh store
\* gives the collection held in memory at the save: same items, same order,
\* same counters and identifying fields, up to the case of translations; for
\* both schemas, whatever selections and validations came before the save.
C15_RoundTrip ==
    last.op = "save_csv" =>
        IF variant = "simple"
        THEN LET r == load_csv(csv_file) IN r.ok /\ SameWords(r.words, words)
        ELSE LET r == qa_load_csv(csv_file) IN r.ok /\ SameCards(r.cards, cards)

\* The columns of a header that the store of the variant does not read.
Unrecognised(header) ==
    LET cols == {header[i] : i \in 1..Len(header)}
    IN  IF variant = "simple"
        THEN cols \ {"Word", "Jyutping", "English", "Questioned", "Correct", "Type"}
        ELSE cols \ ({qa_mapping(header)[k] : k \in DOMAIN qa_mapping(header)}
                        \cup {QuestionedCol, CorrectCol})

\* C16: a save writes one row per item of the collection, under the header of
\* the file that was loaded (same names, same order), and every item keeps
\* the cells of the columns of its original row that the store does not
\* recognise; for the simple store and for the QA store.
C16_SaveKeepsColumns ==
    [][(last'.op = "save_csv")
          => LET items == IF variant = "simple" THEN words ELSE cards
             IN  /\ csv_file'.header = csv_file.header
                 /\ Len(csv_file'.rows) = Len(items)
                 /\ \A i \in 1..Len(items) : \A h \in Unrecognised(csv_file.header) :
                       (HasKey(items[i].row, h) /\ items[i].row[h] # None)
                          => /\ HasKey(csv_file'.rows[i], h)
                             /\ csv_file'.rows[i][h] = items[i].row[h]]_vars

\* The questioned / correct increments held in memory that the file does not
\* hold, one number per item: the counter in memory minus the counter a load
\* of the file reads for that item.
UnsavedQuestioned ==
    IF variant = "simple"
    THEN LET disk == load_csv(csv_file).words
         IN  [i \in 1..Len(words) |-> words[i].q - disk[i].q]
    ELSE LET disk == qa_load_csv(csv_file).cards
         IN  [i \in 1..Len(cards) |-> cards[i].questioned - disk[i].questioned]

UnsavedCorrect ==
    IF variant = "simple"
    THEN LET disk == load_csv(csv_file).words
         IN  [i \in 1..Len(words) |-> words[i].c - disk[i].c]
    ELSE LET disk == qa_load_csv(csv_file).cards
         IN  [i \in 1..Len(cards) |-> cards[i].correct - disk[i].correct]

\* C17: in every state of an open session, summed over all items, at most
\* one questioned increment and at most one correct increment held in memory
\* are not yet in the file.
C17_AtMostOneRoundUnsaved ==
    window = "open" =>
        /\ SumTo(UnsavedQuestioned, Len(UnsavedQuestioned)) <= 1
        /\ SumTo(UnsavedCorrect, Len(UnsavedCorrect)) <= 1

\* C18: in every reachable state every item in memory has a non-empty
\* primary identifying field: the trimmed Character of a simple item, at
\* least one of the three trimmed Q fields of a QA card. Load drops the rows
\* that fail this, and no later operation adds such an item or empties the
\* fields.
C18_PrimaryFieldNonEmpty ==
    /\ \A i \in 1..Len(words) : Strip(words[i].char) # <<>>
    /\ \A i \in 1..Len(cards) :
          \/ Strip(cards[i].ChineseQ) # <<>>
          \/ Strip(cards[i].JyutpingQ) # <<>>
          \/ Strip(cards[i].EnglishQ) # <<>>

\* A QA file with a row that load dropped, after a selection and a
\* validation on what was kept.
C18_Witness ==
    /\ variant = "qa" /\ last.op = "check_answer"
    /\ Len(cards) >= 1 /\ Len(cards) < Len(csv_file.rows)
    /\ \E i \in 1..Len(cards) : cards[i].questioned > 0

\* C19: for both schemas the questioned and correct counters of every item
\* in memory are integers >= 0 in every reachable state, whatever the counter
\* cells of the file hold, and a load does not fail because of a counter
\* cell: a load that fails is explained by a missing file or by a row that
\* lacks one of the columns other than the counters.
C19_CountersPermissive ==
    /\ \A i \in 1..Len(words) :
          words[i].q \in Nat /\ words[i].c \in Nat
    /\ \A i \in 1..Len(cards) :
          cards[i].questioned \in Nat /\ cards[i].correct \in Nat
    /\ (last.op = "load_csv" /\ last.loaded = "failed")
          => \/ ~csv_file.exists
             \/ /\ variant = "simple"
                /\ \E n \in 1..Len(csv_file.rows) :
                      \E k \in {"Word", "Jyutping", "English"} :
                          ~HasKey(csv_file.rows[n], k)

\* C20: a load of the simple store on a file whose header row differs from
\* the canonical header (columns reordered, renamed, missing or added) logs
\* the header warning, returns success and leaves a store a session can
\* start on.
C20_HeaderMismatchNotFatal ==
    (/\ variant = "simple" /\ last.op = "load_csv" /\ csv_file.exists
     /\ csv_file.header # <<"Word", "Jyutping", "English", "Questioned", "Correct", "Type">>)
        => /\ last.warned
           /\ last.loaded = "ok"
           /\ window = "open"

\* Some item's questioned counter grows in the step.
Selects ==
    \E i \in 1..ItemCount(words, cards) :
        i <= ItemCount(words', cards')
            /\ QuestionedOf(words', cards', i) > QuestionedOf(words, cards, i)

\* C21: the round counter stays within 0..10; once 10 cards have been
\* presented in a round, a step selects an item (a questioned counter grows)
\* only if in that step the user answered the continue prompt with yes, and
\* the counter was reset to 0 before the selection (it is 1 after it); after
\* the user declined, nothing is selected or validated any more.
C21_RoundLimit ==
    [][/\ card_count \in 0..MAX_CARDS /\ card_count' \in 0..MAX_CARDS
       /\ (window = "open" /\ card_count = MAX_CARDS /\ Selects)
             => (last'.reply = "yes" /\ card_count' = 1)
       /\ window = "closed" => (words' = words /\ cards' = cards)]_vars

CorrectWithinQuestioned ==
    \A i \in 1..ItemCount(words, cards) :
        CorrectOf(words, cards, i) <= QuestionedOf(words, cards, i)

\* C22: when the program starts on a file whose loaded collection has
\* correct <= questioned for every item (the start states of SpecOrdered),
\* correct <= questioned holds for every item in every state the session
\* controller reaches.
C22_CorrectAtMostQuestioned ==
    window # "new" => CorrectWithinQuestioned

\* An item presented twice and validated correct twice: its correct counter
\* has caught up with its questioned counter of the previous presentation.
C22_Witness ==
    /\ window = "open" /\ last.op = "check" /\ last.chk = "correct"
    /\ CorrectWithinQuestioned
    /\ \E i \in 1..ItemCount(words, cards) :
          /\ CorrectOf(words, cards, i) >= 2
          /\ QuestionedOf(words, cards, i) - CorrectOf(words, cards, i) <= 1

\* The items after the step are the items before it, with counters changed
\* by at most what the validation and the selection of the step count.
ItemsKept ==
    /\ Len(words') = Len(words) /\ Len(cards') = Len(cards)
    /\ \A i \in 1..Len(words) :
          /\ words'[i].char = words[i].char /\ words'[i].jyut = words[i].jyut
          /\ words'[i].eng = words[i].eng /\ words'[i].type = words[i].type
          /\ words'[i].q - words[i].q \in {0, 1}
          /\ words'[i].c - words[i].c =
                IF i = last'.chk_card /\ last'.chk = "correct" THEN 1 ELSE 0
    /\ \A i \in 1..Len(cards) :
          /\ \A n \in 1..6 : cards'[i][CANONICAL_KEYS[n]] = cards[i][CANONICAL_KEYS[n]]
          /\ cards'[i].questioned - cards[i].questioned \in {0, 1}
          /\ cards'[i].correct - cards[i].correct =
                IF i = last'.chk_card /\ last'.chk = "correct" THEN 1 ELSE 0

\* C23: a check whose save raises part-way ends normally: the items in memory
\* keep their fields and the counters the validation gave them, the session
\* goes on to the next card, and the file holds what it held before (stale,
\* not truncated and not partial).
C23_FailedSaveKeepsFile ==
    [][(last'.saved = "failed")
          => /\ ItemsKept
             /\ window' = "open" /\ last'.sel_ret = "card"
             /\ csv_file' = csv_file]_vars

\* C24: for every text for which the generator stores audio, the file name
\* the playback side computes (FlashcardQAApp.safe_name, and
\* CardDisplay.get_audio_path) is the file name under which the generator
\* stored the audio of that text.
C24_SameAudioName ==
    (last.op = "generate_tts" /\ last.stored # {}) => last.stored = {last.audio}

\* C25: in the filtered simple session every item a selection returns has,
\* at that moment, a Type in the currently enabled set of types, after any
\* sequence of filter changes, Next Card and check actions.
C25_SelectedTypeEnabled ==
    [][(variant = "simple" /\ window' = "open" /\ last'.sel_ret = "card")
          => Strip(words'[last'.sel_card].type) \in selected_types']_vars

\* The items after the step are the items before it, in the same order and
\* with the same character, phonetic, translation and type fields.
FieldsKept ==
    /\ Len(words') = Len(words) /\ Len(cards') = Len(cards)
    /\ \A i \in 1..Len(words) :
          /\ words'[i].char = words[i].char /\ words'[i].jyut = words[i].jyut
          /\ words'[i].eng = words[i].eng /\ words'[i].type = words[i].type
    /\ \A i \in 1..Len(cards) :
          \A n \in 1..6 : cards'[i][CANONICAL_KEYS[n]] = cards[i][CANONICAL_KEYS[n]]

\* C26: a selection changes only the questioned counter of the item it acts
\* on, which is the engine's current item afterwards and the item returned
\* when one is returned; a validation changes at most the correct counter of
\* the current item; neither changes a counter of another item, a character,
\* phonetic, translation or type field, or the length and order of the
\* collection; no counter decreases.
C26_OnlyCountersOfTheItem ==
    [][/\ (last'.op = "get_random_card")
             => /\ FieldsKept
                /\ \A i \in 1..ItemCount(words, cards) :
                      /\ CorrectOf(words', cards', i) = CorrectOf(words, cards, i)
                      /\ QuestionedOf(words', cards', i) >= QuestionedOf(words, cards, i)
                      /\ QuestionedOf(words', cards', i) # QuestionedOf(words, cards, i)
                            => /\ i = card_logic'.current
                               /\ last'.sel_ret = "card" => i = last'.sel_card
       /\ (last'.op = "check_answer")
             => /\ FieldsKept
                /\ \A i \in 1..ItemCount(words, cards) :
                      /\ QuestionedOf(words', cards', i) = QuestionedOf(words, cards, i)
                      /\ CorrectOf(words', cards', i) >= CorrectOf(words, cards, i)
                      /\ CorrectOf(words', cards', i) # CorrectOf(words, cards, i)
                            => i = card_logic.current]_vars

\* A validation counted on the second item of a collection of several items,
\* after selections of both.
C26_Witness ==
    /\ last.op = "check_answer" /\ last.chk = "correct" /\ last.chk_card = 2
    /\ ItemCount(words, cards) >= 2
    /\ CorrectOf(words, cards, 2) >= 1 /\ QuestionedOf(words, cards, 1) >= 1

====
